---- MODULE Spec2Model ----
(***************************************************************************)
(* The symbol table, analysis orchestrator and document handlers of the    *)
(* Carrion language server.                                                *)
(*                                                                         *)
(* Pointers are modelled by value.  A nil pointer is the empty tuple <<>>  *)
(* and a non-nil pointer to an object is the one-element tuple <<object>>. *)
(* A Scope's Parent is the identity of the scope it points to.  The one    *)
(* object that is mutated through two aliases, a GrimoireSymbol reachable   *)
(* from its scope and from the registry, carries its address (Addr): a     *)
(* write through one alias is copied to the other when the addresses match.*)
(* Go's map iteration order is unspecified: a query that returns "the      *)
(* first match" of a map iteration is modelled by the set of results it    *)
(* can return.                                                             *)
(***************************************************************************)
EXTENDS Integers, Sequences, FiniteSets, TLC

VARIABLES
    symbolTable,    \* CarrionAnalyzer.symbolTable: Global, Grimoires, FileScopes, CurrentURI
    documents,      \* CarrionDocumentStore.Documents: uri -> CarrionDocument
    initialized,    \* Handler.initialized
    outbox,         \* notifications sent on conn by the request handled last
    panicked,       \* a nil dereference happened: the goroutine (and process) is gone
    jobs,           \* uri -> the BuildFromAST call in progress for it (concurrent runs)
    last,           \* the call handled last: its operation, uri and text
    calls           \* the number of calls made so far

vars == <<symbolTable, documents, initialized, outbox, panicked, jobs, last, calls>>

-----------------------------------------------------------------------------
(* Bounds of the model *)

\* top-level statements per document
MaxStmts == 2

\* document versions a client sends: 1..MaxVersion
MaxVersion == 2

\* BuildFromAST calls in a run of the symbol table used alone
MaxBuilds == 2

\* requests a server handles in a run
MaxRequests == 3

\* malformed lines of a text
MaxErrors == 2

URIs == {"file:///a.crl", "file:///b.crl"}

-----------------------------------------------------------------------------
(* The AST the external parser hands over (github.com/javanhut/             *)
(* TheCarrionLanguage/src/ast): only the fields the symbol table reads.     *)

Tok(line, column) == [Line |-> line, Column |-> column]

Param(name, hint, default) ==
    [Name |-> name, TypeHint |-> hint, DefaultValue |-> default]

\* *ast.FunctionDefinition (a top-level spell, a method or the initializer)
FunctionDefinition(name, tok, params, body) ==
    [kind |-> "FunctionDefinition", Name |-> name, Token |-> tok,
     Parameters |-> params, DocString |-> "", Body |-> body]

\* *ast.GrimoireDefinition; InitMethod is <<>> (nil) or <<definition>>
GrimoireDefinition(name, tok, methods, init) ==
    [kind |-> "GrimoireDefinition", Name |-> name, Token |-> tok,
     Inherits |-> "", DocString |-> "", Methods |-> methods, InitMethod |-> init]

\* *ast.AssignStatement.  Name is the target when it is an *ast.Identifier and
\* "" when it is any other expression (self.x, a[i]).  Callee is the callee of
\* Value when Value is a call of a bare identifier, and "" otherwise.
AssignStatement(name, tok, callee) ==
    [kind |-> "AssignStatement", Name |-> name, Token |-> tok,
     TypeHint |-> "", Callee |-> callee]

BlockStatement(stmts) == [kind |-> "BlockStatement", Statements |-> stmts]

\* otherwise holds the Consequence of each of the OtherwiseBranches
IfStatement(cons, otherwise, alt) ==
    [kind |-> "IfStatement", Consequence |-> cons,
     OtherwiseBranches |-> otherwise, Alternative |-> alt]

\* Variables: <<v>> for an identifier, the identifiers of a tuple otherwise
ForStatement(tok, variables, body, alt) ==
    [kind |-> "ForStatement", Token |-> tok, Variables |-> variables,
     Body |-> body, Alternative |-> alt]

WhileStatement(body) == [kind |-> "WhileStatement", Body |-> body]

\* an ensnare clause; Alias is "" when the clause binds no name
EnsnareClause(tok, alias, cons) ==
    [Token |-> tok, Alias |-> alias, Consequence |-> cons]

AttemptStatement(try, ensnares, resolve) ==
    [kind |-> "AttemptStatement", TryBlock |-> try,
     EnsnareClauses |-> ensnares, ResolveBlock |-> resolve]

\* *ast.MatchStatement: Cases holds the body of each of its case clauses
MatchStatement(cases) == [kind |-> "MatchStatement", Cases |-> cases]

\* any statement the symbol table ignores (return, expression statement, ...)
OtherStatement == [kind |-> "OtherStatement"]

-----------------------------------------------------------------------------
(* Source texts.  A text is a sequence of top-level declarations, each one  *)
(* of the snippets below, followed by `bad` malformed lines.  The parser    *)
(* is external: ParseProgram and Errors give what it returns for a text.    *)

Snippets == {"GrimFoo", "GrimFoo2", "GrimBar", "SpellFoo", "SpellRun", "AssignX",
             "AssignFoo"}

\* number of source lines of a snippet
Height(s) ==
    CASE s = "GrimFoo"   -> 6
      [] s = "GrimFoo2"  -> 3
      [] s = "GrimBar"   -> 3
      [] s = "SpellFoo"  -> 10
      [] s = "SpellRun"  -> 5
      [] s = "AssignX"   -> 1
      [] s = "AssignFoo" -> 1

\* The AST of snippet s when its first line is source line L (1-based).
\*   GrimFoo     grim Foo:
\*                   init(a):
\*                       if a:
\*                           w = 1
\*                   spell bar(x, y = 5):
\*                       z = x
\*   GrimFoo2    grim Foo:
\*                   spell baz():
\*                       return 0
\*   GrimBar     grim Bar:
\*                   spell qux():
\*                       return 0
\*   SpellFoo    # a spell
\*               spell Foo(p):
\*                   for i in p:
\*                       v = Foo()
\*                   attempt:
\*                       t = 1
\*                   ensnare Error as e:
\*                       u = 2
\*                   while p:
\*                       self.n = 3
\*   SpellRun    spell run(x):
\*                   match x:
\*                       case 1:
\*                           m = 1
\*                   r = 2
\*   AssignX     x = Foo(1, 2)
\*   AssignFoo   Foo = 1
Node(s, L) ==
    CASE s = "GrimFoo" ->
            GrimoireDefinition("Foo", Tok(L, 1),
                <<FunctionDefinition("bar", Tok(L + 4, 5),
                      <<Param("x", "", ""), Param("y", "", "5")>>,
                      <<AssignStatement("z", Tok(L + 5, 9), "")>>)>>,
                <<FunctionDefinition("init", Tok(L + 1, 5),
                      <<Param("a", "", "")>>,
                      <<IfStatement(<<AssignStatement("w", Tok(L + 3, 13), "")>>,
                                    <<>>, <<>>)>>)>>)
      [] s = "GrimFoo2" ->
            GrimoireDefinition("Foo", Tok(L, 1),
                <<FunctionDefinition("baz", Tok(L + 1, 5), <<>>,
                      <<OtherStatement>>)>>,
                <<>>)
      [] s = "GrimBar" ->
            GrimoireDefinition("Bar", Tok(L, 1),
                <<FunctionDefinition("qux", Tok(L + 1, 5), <<>>,
                      <<OtherStatement>>)>>,
                <<>>)
      [] s = "SpellFoo" ->
            FunctionDefinition("Foo", Tok(L + 1, 1), <<Param("p", "", "")>>,
                <<ForStatement(Tok(L + 2, 5), <<"i">>,
                      <<AssignStatement("v", Tok(L + 3, 9), "Foo")>>, <<>>),
                  AttemptStatement(
                      <<AssignStatement("t", Tok(L + 5, 9), "")>>,
                      <<EnsnareClause(Tok(L + 6, 5), "e",
                            <<AssignStatement("u", Tok(L + 7, 9), "")>>)>>,
                      <<>>),
                  WhileStatement(<<AssignStatement("", Tok(L + 9, 9), "")>>)>>)
      [] s = "SpellRun" ->
            FunctionDefinition("run", Tok(L, 1), <<Param("x", "", "")>>,
                <<MatchStatement(<<<<AssignStatement("m", Tok(L + 3, 13), "")>>>>),
                  AssignStatement("r", Tok(L + 4, 5), "")>>)
      [] s = "AssignX" -> AssignStatement("x", Tok(L, 1), "Foo")
      [] s = "AssignFoo" -> AssignStatement("Foo", Tok(L, 1), "")

RECURSIVE SumHeights(_, _)
SumHeights(src, k) == IF k = 0 THEN 0 ELSE Height(src[k]) + SumHeights(src, k - 1)

\* the source line (1-based) on which the k-th declaration of src starts
FirstLine(src, k) == 1 + SumHeights(src, k - 1)

\* (*parser.Parser).ParseProgram: program.Statements
ParseProgram(src) == [k \in 1..Len(src) |-> Node(src[k], FirstLine(src, k))]

Sources == UNION {[1..n -> Snippets] : n \in 0..MaxStmts}

\* (*parser.Parser).Errors: one error string per malformed line, the lines
\* following the declarations.  Located tells whether the string has the form
\* "<Message> at line <Line>, column <Column> ..."; the odd ones have.
Errors(text) ==
    [k \in 1..text.bad |->
        [Message |-> "syntax error", Located |-> k % 2 = 1,
         Line |-> SumHeights(text.src, Len(text.src)) + k, Column |-> k]]

Text(src, bad) == [src |-> src, bad |-> bad]

GoodTexts == {Text(src, 0) : src \in Sources}

\* the characters of a word; any other piece of text is one character
Chars(piece) ==
    CASE piece = "Bar" -> <<"B", "a", "r">>
      [] piece = "Error" -> <<"E", "r", "r", "o", "r">>
      [] piece = "Foo" -> <<"F", "o", "o">>
      [] piece = "as" -> <<"a", "s">>
      [] piece = "attempt" -> <<"a", "t", "t", "e", "m", "p", "t">>
      [] piece = "bar" -> <<"b", "a", "r">>
      [] piece = "baz" -> <<"b", "a", "z">>
      [] piece = "case" -> <<"c", "a", "s", "e">>
      [] piece = "ensnare" -> <<"e", "n", "s", "n", "a", "r", "e">>
      [] piece = "for" -> <<"f", "o", "r">>
      [] piece = "grim" -> <<"g", "r", "i", "m">>
      [] piece = "if" -> <<"i", "f">>
      [] piece = "in" -> <<"i", "n">>
      [] piece = "init" -> <<"i", "n", "i", "t">>
      [] piece = "match" -> <<"m", "a", "t", "c", "h">>
      [] piece = "print" -> <<"p", "r", "i", "n", "t">>
      [] piece = "qux" -> <<"q", "u", "x">>
      [] piece = "return" -> <<"r", "e", "t", "u", "r", "n">>
      [] piece = "run" -> <<"r", "u", "n">>
      [] piece = "self" -> <<"s", "e", "l", "f">>
      [] piece = "spell" -> <<"s", "p", "e", "l", "l">>
      [] piece = "while" -> <<"w", "h", "i", "l", "e">>
      [] piece = "    " -> <<" ", " ", " ", " ">>
      [] piece = "        " -> <<" ", " ", " ", " ", " ", " ", " ", " ">>
      [] piece = "            " -> <<" ", " ", " ", " ", " ", " ", " ", " ", " ", " ", " ", " ">>
      [] OTHER -> <<piece>>

RECURSIVE Join(_)
\* the characters of a line given as its pieces
Join(pieces) ==
    IF Len(pieces) = 0 THEN <<>> ELSE Chars(Head(pieces)) \o Join(Tail(pieces))

\* the lines of a snippet, as written in the comment of Node
SourceLines(s) ==
    CASE s = "GrimFoo" ->
            <<Join(<<"grim", " ", "Foo", ":">>),
              Join(<<"    ", "init", "(", "a", ")", ":">>),
              Join(<<"        ", "if", " ", "a", ":">>),
              Join(<<"            ", "w", " ", "=", " ", "1">>),
              Join(<<"    ", "spell", " ", "bar", "(", "x", ",", " ", "y", " ", "=", " ", "5", ")", ":">>),
              Join(<<"        ", "z", " ", "=", " ", "x">>)>>
      [] s = "GrimFoo2" ->
            <<Join(<<"grim", " ", "Foo", ":">>),
              Join(<<"    ", "spell", " ", "baz", "(", ")", ":">>),
              Join(<<"        ", "return", " ", "0">>)>>
      [] s = "GrimBar" ->
            <<Join(<<"grim", " ", "Bar", ":">>),
              Join(<<"    ", "spell", " ", "qux", "(", ")", ":">>),
              Join(<<"        ", "return", " ", "0">>)>>
      [] s = "SpellFoo" ->
            <<Join(<<"#", " ", "a", " ", "spell">>),
              Join(<<"spell", " ", "Foo", "(", "p", ")", ":">>),
              Join(<<"    ", "for", " ", "i", " ", "in", " ", "p", ":">>),
              Join(<<"        ", "v", " ", "=", " ", "Foo", "(", ")">>),
              Join(<<"    ", "attempt", ":">>),
              Join(<<"        ", "t", " ", "=", " ", "1">>),
              Join(<<"    ", "ensnare", " ", "Error", " ", "as", " ", "e", ":">>),
              Join(<<"        ", "u", " ", "=", " ", "2">>),
              Join(<<"    ", "while", " ", "p", ":">>),
              Join(<<"        ", "self", ".", "n", " ", "=", " ", "3">>)>>
      [] s = "SpellRun" ->
            <<Join(<<"spell", " ", "run", "(", "x", ")", ":">>),
              Join(<<"    ", "match", " ", "x", ":">>),
              Join(<<"        ", "case", " ", "1", ":">>),
              Join(<<"            ", "m", " ", "=", " ", "1">>),
              Join(<<"    ", "r", " ", "=", " ", "2">>)>>
      [] s = "AssignX" ->
            <<Join(<<"x", " ", "=", " ", "Foo", "(", "1", ",", " ", "2", ")">>)>>
      [] s = "AssignFoo" ->
            <<Join(<<"Foo", " ", "=", " ", "1">>)>>

\* a malformed line:   bar(x,
MalformedLine == Join(<<"print", "(", "x", ",">>)

RECURSIVE Repeat(_, _)
Repeat(x, n) == IF n = 0 THEN <<>> ELSE <<x>> \o Repeat(x, n - 1)

RECURSIVE SnippetLines(_)
SnippetLines(src) ==
    IF Len(src) = 0 THEN <<>> ELSE SourceLines(Head(src)) \o SnippetLines(Tail(src))

\* strings.Split(doc.Text, "\n"): the lines of a text, each the sequence of
\* its characters; the empty text has one line, the empty one
SplitLines(text) ==
    LET lines == SnippetLines(text.src) \o Repeat(MalformedLine, text.bad)
    IN  IF Len(lines) = 0 THEN <<<<>>>> ELSE lines

\* the words texts are written with, and the string a sequence of characters
\* spells: itself if a single character, "?" if no word of the texts
Vocabulary ==
    {"Bar", "Error", "Foo", "as", "attempt", "bar", "baz", "case", "ensnare", "for",
     "grim", "if", "in", "init", "match", "print", "qux", "return", "run", "self",
     "spell", "while"}

Word(chars) ==
    IF Len(chars) = 0 THEN ""
    ELSE IF Len(chars) = 1 THEN chars[1]
    ELSE IF \E w \in Vocabulary : Chars(w) = chars
         THEN CHOOSE w \in Vocabulary : Chars(w) = chars
         ELSE "?"

-----------------------------------------------------------------------------
(* The data model of internal/symbols/symboltable.go *)

\* the identity of a GrimoireSymbol object: the BuildFromAST call (by its uri)
\* and the index of the top-level statement that allocated it
Address(uri, idx) == [uri |-> uri, idx |-> idx]

\* the identity of a Scope object, as held in Scope.Parent
NilScope == [kind |-> "nil", uri |-> "", idx |-> 0]
GlobalScope == [kind |-> "Global", uri |-> "", idx |-> 0]
FileScope(uri) == [kind |-> "File", uri |-> uri, idx |-> 0]
GrimoireScopeOf(addr) == [kind |-> "Grimoire", uri |-> addr.uri, idx |-> addr.idx]

Symbol(name, type, grimoireName, valueType, doc, params, uri, line, column, scope) ==
    [Name |-> name, Type |-> type, GrimoireName |-> grimoireName,
     ValueType |-> valueType, Documentation |-> doc, Parameters |-> params,
     DefinitionURI |-> uri, DefinitionLine |-> line, DefinitionColumn |-> column,
     Scope |-> scope]

\* &Scope{...}: Symbols is an empty map, EndLine is never set
Scope(parent, startLine, grimoire, uri) ==
    [Parent |-> parent, Symbols |-> <<>>, StartLine |-> startLine, EndLine |-> 0,
     Grimoire |-> grimoire, URI |-> uri]

\* scope.Symbols[sym.Name] = sym
Insert(scope, sym) == [scope EXCEPT !.Symbols = (sym.Name :> sym) @@ @]

NewSymbolTable ==
    [Global |-> Scope(NilScope, 0, <<>>, ""),
     Grimoires |-> <<>>,
     FileScopes |-> <<>>,
     CurrentURI |-> ""]

extractPositionFromToken(tok) == [Line |-> tok.Line - 1, Column |-> tok.Column - 1]

-----------------------------------------------------------------------------
(* Statement walk.  env is what a call of processStatementForSymbols can    *)
(* read and write: scope (the *Scope argument), st.Grimoires, st.CurrentURI *)
(* and whether a nil dereference has ended the walk.                        *)

Env(scope, st) ==
    [scope |-> scope, Grimoires |-> st.Grimoires, CurrentURI |-> st.CurrentURI,
     panicked |-> FALSE]

processAssignStatement(node, env) ==
    IF env.panicked \/ node.Name = "" THEN env
    ELSE IF env.scope = <<>> THEN [env EXCEPT !.panicked = TRUE]
    ELSE
        LET scope == env.scope[1]
            pos == extractPositionFromToken(node.Token)
        IN  IF scope.Grimoire # <<>> THEN
                LET fieldSymbol ==
                        Symbol(node.Name, "field", scope.Grimoire[1].Name, "", "", <<>>,
                               env.CurrentURI, pos.Line, pos.Column, <<>>)
                    grimoire == [scope.Grimoire[1] EXCEPT !.Fields = Append(@, fieldSymbol)]
                IN  [env EXCEPT !.scope =
                        <<[Insert(scope, fieldSymbol) EXCEPT !.Grimoire = <<grimoire>>]>>]
            ELSE
                LET exists == node.Callee # "" /\ node.Callee \in DOMAIN env.Grimoires
                    varSymbol ==
                        Symbol(node.Name,
                               IF exists THEN "instance" ELSE "variable",
                               IF exists THEN env.Grimoires[node.Callee].Name ELSE "",
                               node.TypeHint, "", <<>>,
                               env.CurrentURI, pos.Line, pos.Column, <<>>)
                IN  [env EXCEPT !.scope = <<Insert(scope, varSymbol)>>]

\* scope.Symbols[name] = &Symbol{Type: "variable", ...} of a loop variable or
\* an exception alias
insertVariable(name, tok, env) ==
    IF env.panicked THEN env
    ELSE IF env.scope = <<>> THEN [env EXCEPT !.panicked = TRUE]
    ELSE [env EXCEPT !.scope =
            <<Insert(env.scope[1],
                     Symbol(name, "variable", "", "", "", <<>>, env.CurrentURI,
                            extractPositionFromToken(tok).Line, 0, <<>>))>>]

RECURSIVE insertVariables(_, _, _)
insertVariables(names, tok, env) ==
    IF Len(names) = 0 THEN env
    ELSE insertVariables(Tail(names), tok, insertVariable(Head(names), tok, env))

RECURSIVE processStatementForSymbols(_, _), processStatements(_, _)
RECURSIVE processBranches(_, _), processEnsnares(_, _)

\* for _, s := range stmts { st.processStatementForSymbols(s, scope) }
processStatements(stmts, env) ==
    IF Len(stmts) = 0 THEN env
    ELSE processStatements(Tail(stmts), processStatementForSymbols(Head(stmts), env))

\* for _, branch := range node.OtherwiseBranches { ... }
processBranches(branches, env) ==
    IF Len(branches) = 0 THEN env
    ELSE processBranches(Tail(branches), processStatements(Head(branches), env))

processEnsnares(clauses, env) ==
    IF Len(clauses) = 0 THEN env
    ELSE LET c == Head(clauses)
             bound == IF c.Alias # "" THEN insertVariable(c.Alias, c.Token, env) ELSE env
         IN  processEnsnares(Tail(clauses), processStatements(c.Consequence, bound))

processStatementForSymbols(stmt, env) ==
    IF env.panicked THEN env
    ELSE CASE stmt.kind = "AssignStatement" -> processAssignStatement(stmt, env)
           \* the block's symbols go to a fresh blockScope that no symbol points
           \* to (its Parent, the scope argument, is never followed)
           [] stmt.kind = "BlockStatement" ->
                LET blockScope == Scope(NilScope, 0, <<>>, env.CurrentURI)
                    inner == processStatements(stmt.Statements,
                                               [env EXCEPT !.scope = <<blockScope>>])
                IN  [env EXCEPT !.panicked = inner.panicked]
           [] stmt.kind = "IfStatement" ->
                processStatements(stmt.Alternative,
                    processBranches(stmt.OtherwiseBranches,
                        processStatements(stmt.Consequence, env)))
           [] stmt.kind = "ForStatement" ->
                processStatements(stmt.Alternative,
                    processStatements(stmt.Body,
                        insertVariables(stmt.Variables, stmt.Token, env)))
           [] stmt.kind = "WhileStatement" -> processStatements(stmt.Body, env)
           [] stmt.kind = "AttemptStatement" ->
                processStatements(stmt.ResolveBlock,
                    processEnsnares(stmt.EnsnareClauses,
                        processStatements(stmt.TryBlock, env)))
           [] OTHER -> env

-----------------------------------------------------------------------------
(* Declarations *)

\* params := make([]Parameter, 0, len(node.Parameters)) and the loop filling it
Parameters(node) ==
    [k \in 1..Len(node.Parameters) |->
        [Name |-> node.Parameters[k].Name,
         TypeHint |-> node.Parameters[k].TypeHint,
         DefaultValue |-> node.Parameters[k].DefaultValue]]

RECURSIVE insertParameters(_, _, _, _)
\* for _, param := range params { scope.Symbols[param.Name] = paramSymbol }
insertParameters(params, line, uri, scope) ==
    IF Len(params) = 0 THEN scope
    ELSE insertParameters(Tail(params), line, uri,
            Insert(scope, Symbol(Head(params).Name, "parameter", "",
                                 Head(params).TypeHint, "", <<>>, uri, line, 0, <<>>)))

\* processMethod(node, scope, Grimoire): the Grimoire object after the call.
\* scope is the identity of the grimoire's scope.
processMethod(node, scope, Grimoire, st) ==
    LET pos == extractPositionFromToken(node.Token)
        params == Parameters(node)
        selfSymbol == Symbol("self", "parameter", Grimoire.Name, "", "", <<>>,
                             st.CurrentURI, pos.Line, 0, <<>>)
        methodScope ==
            insertParameters(params, pos.Line, st.CurrentURI,
                Insert(Scope(scope, pos.Line, <<>>, st.CurrentURI), selfSymbol))
        walked == processStatements(node.Body, Env(<<methodScope>>, st))
        methodSymbol == Symbol(node.Name, "method", Grimoire.Name, "", node.DocString,
                               params, st.CurrentURI, pos.Line, pos.Column,
                               walked.scope)
    IN  [Grimoire EXCEPT !.Methods = Append(@, methodSymbol)]

\* MethodsOf without lines 153-155: the initializer is not processed
MethodsOfWithoutInit(node) == node.Methods

\* the methods processMethod is called for, in call order: node.Methods, then
\* node.InitMethod when it is not nil
MethodsOf(node) == node.Methods \o node.InitMethod

\* registerGrimoire with a registry that keeps the first declaration of a name
registerGrimoireOnce(node, uri, idx, st) ==
    LET pos == extractPositionFromToken(node.Token)
        Grimoire == [Name |-> node.Name, Methods |-> <<>>, Fields |-> <<>>,
                     ParentName |-> node.Inherits, Documentation |-> node.DocString,
                     DefinitionURI |-> st.CurrentURI, DefinitionLine |-> pos.Line,
                     Addr |-> Address(uri, idx)]
        GrimoireScope == Scope(FileScope(uri), 0, <<Grimoire>>, st.CurrentURI)
        GrimoireSymbol == Symbol(node.Name, "Grimoire", "", "", Grimoire.Documentation,
                                 <<>>, st.CurrentURI, pos.Line, pos.Column,
                                 <<GrimoireScope>>)
    IN  [st EXCEPT !.FileScopes[uri] = Insert(@, GrimoireSymbol),
                   !.Grimoires = @ @@ (node.Name :> Grimoire)]

\* processGrimoireDefinition up to the two stores of lines 146 and 147.
\* uri names the file scope the call got; idx is the statement's index.
registerGrimoire(node, uri, idx, st) ==
    LET pos == extractPositionFromToken(node.Token)
        Grimoire == [Name |-> node.Name, Methods |-> <<>>, Fields |-> <<>>,
                     ParentName |-> node.Inherits, Documentation |-> node.DocString,
                     DefinitionURI |-> st.CurrentURI, DefinitionLine |-> pos.Line,
                     Addr |-> Address(uri, idx)]
        GrimoireScope == Scope(FileScope(uri), 0, <<Grimoire>>, st.CurrentURI)
        GrimoireSymbol == Symbol(node.Name, "Grimoire", "", "", Grimoire.Documentation,
                                 <<>>, st.CurrentURI, pos.Line, pos.Column,
                                 <<GrimoireScope>>)
    IN  [st EXCEPT !.FileScopes[uri] = Insert(@, GrimoireSymbol),
                   !.Grimoires = (node.Name :> Grimoire) @@ @]

\* A write to the GrimoireSymbol object that scope.Grimoire points to, seen
\* through Grimoires[name] as well when that entry is the same object.
aliased(st, scope) ==
    IF scope.Grimoire = <<>> THEN st
    ELSE LET Grimoire == scope.Grimoire[1]
         IN  IF /\ Grimoire.Name \in DOMAIN st.Grimoires
                /\ st.Grimoires[Grimoire.Name].Addr = Grimoire.Addr
             THEN [st EXCEPT !.Grimoires[Grimoire.Name] = Grimoire]
             ELSE st

\* the m-th call st.processMethod(method, GrimoireScope, Grimoire) of
\* processGrimoireDefinition (lines 149-155)
processGrimoireMethod(node, m, uri, idx, st) ==
    LET GrimoireScope == st.FileScopes[uri].Symbols[node.Name].Scope[1]
        Grimoire == processMethod(MethodsOf(node)[m], GrimoireScopeOf(Address(uri, idx)),
                                  GrimoireScope.Grimoire[1], st)
        written == [GrimoireScope EXCEPT !.Grimoire = <<Grimoire>>]
    IN  aliased([st EXCEPT !.FileScopes[uri].Symbols[node.Name].Scope = <<written>>],
                written)

\* processFunctionDefinition declaring the spell in the global scope
processFunctionDefinitionGlobally(node, uri, st) ==
    LET pos == extractPositionFromToken(node.Token)
        params == Parameters(node)
        funcScope == insertParameters(params, pos.Line, st.CurrentURI,
                        Scope(FileScope(uri), pos.Line, <<>>, st.CurrentURI))
        funcSymbol == Symbol(node.Name, "spell", "", "", node.DocString, params,
                             st.CurrentURI, pos.Line, pos.Column, <<funcScope>>)
    IN  [st EXCEPT !.Global = Insert(@, funcSymbol)]

processFunctionDefinition(node, uri, st) ==
    LET pos == extractPositionFromToken(node.Token)
        params == Parameters(node)
        funcScope == insertParameters(params, pos.Line, st.CurrentURI,
                        Scope(FileScope(uri), pos.Line, <<>>, st.CurrentURI))
        funcSymbol == Symbol(node.Name, "spell", "", "", node.DocString, params,
                             st.CurrentURI, pos.Line, pos.Column, <<funcScope>>)
    IN  [st EXCEPT !.FileScopes[uri] = Insert(@, funcSymbol)]

\* st.processAssignStatement(node, fileScope) of the first pass
processTopLevelAssign(node, uri, st) ==
    [st EXCEPT !.FileScopes[uri] =
        processAssignStatement(node, Env(<<@>>, st)).scope[1]]

\* processFunctionBody: the table after the call, and whether it panicked
processFunctionBody(node, uri, st) ==
    LET scope == st.FileScopes[uri]
    IN  IF node.Name \notin DOMAIN scope.Symbols
        THEN [st |-> st, panicked |-> FALSE]
        ELSE LET funcSymbol == scope.Symbols[node.Name]
                 walked == processStatements(node.Body, Env(funcSymbol.Scope, st))
             IN  IF walked.scope = <<>>
                 THEN [st |-> st, panicked |-> walked.panicked]
                 ELSE [st |-> aliased(
                                [st EXCEPT !.FileScopes[uri].Symbols[node.Name].Scope =
                                    walked.scope],
                                walked.scope[1]),
                       panicked |-> walked.panicked]

-----------------------------------------------------------------------------
(* BuildFromAST, as the sequence of its steps.  A job is a call in progress: *)
(* the text whose program it walks and the place it has reached.            *)
(*   phase "install"  before lines 74-81                                    *)
(*   phase "first"    in the first pass, before statement i; for a grimoire *)
(*                    m = 0 is before lines 106-147 and m > 0 before the    *)
(*                    m-th processMethod call                               *)
(*   phase "second"   in the second pass, before function definition i      *)
(*   phase "done"     returned;  phase "panic"  ended by a nil dereference  *)

Job(src) == [src |-> src, phase |-> "install", i |-> 0, m |-> 0]

Running(job) == job.phase \notin {"done", "panic"}

\* the second loop (lines 96-101) from statement i on: the next function
\* definition, or the end of the call
secondPass(job, program, i) ==
    LET rest == {j \in (i + 1)..Len(program) : program[j].kind = "FunctionDefinition"}
    IN  IF rest = {} THEN [job EXCEPT !.phase = "done", !.i = 0, !.m = 0]
        ELSE [job EXCEPT !.phase = "second", !.m = 0,
                         !.i = CHOOSE j \in rest : \A k \in rest : j <= k]

\* the first loop (lines 84-93) after statement i
firstPass(job, program, i) ==
    IF i < Len(program) THEN [job EXCEPT !.phase = "first", !.i = i + 1, !.m = 0]
    ELSE secondPass(job, program, 0)

\* lines 80-81 with the other files' scopes dropped from the map
installOnlyFileScope(st, uri) ==
    [st EXCEPT !.FileScopes = (uri :> Scope(GlobalScope, 0, <<>>, uri)),
               !.CurrentURI = uri]

\* lines 75-81: a new, empty file scope replaces the entry of uri
installFileScope(st, uri) ==
    [st EXCEPT !.FileScopes = (uri :> Scope(GlobalScope, 0, <<>>, uri)) @@ @,
               !.CurrentURI = uri]

\* one step of BuildFromAST(program, uri): the table and the job after it
step(st, uri, job) ==
    LET program == ParseProgram(job.src)
        node == program[job.i]
    IN  CASE job.phase = "install" ->
                [st |-> installFileScope(st, uri),
                 job |-> firstPass(job, program, 0)]
          [] job.phase = "first" /\ node.kind = "GrimoireDefinition" /\ job.m = 0 ->
                [st |-> registerGrimoire(node, uri, job.i, st),
                 job |-> IF Len(MethodsOf(node)) = 0 THEN firstPass(job, program, job.i)
                         ELSE [job EXCEPT !.m = 1]]
          [] job.phase = "first" /\ node.kind = "GrimoireDefinition" /\ job.m > 0 ->
                [st |-> processGrimoireMethod(node, job.m, uri, job.i, st),
                 job |-> IF job.m = Len(MethodsOf(node)) THEN firstPass(job, program, job.i)
                         ELSE [job EXCEPT !.m = job.m + 1]]
          [] job.phase = "first" /\ node.kind = "FunctionDefinition" ->
                [st |-> processFunctionDefinition(node, uri, st),
                 job |-> firstPass(job, program, job.i)]
          [] job.phase = "first" /\ node.kind = "AssignStatement" ->
                [st |-> processTopLevelAssign(node, uri, st),
                 job |-> firstPass(job, program, job.i)]
          [] job.phase = "first" ->
                [st |-> st, job |-> firstPass(job, program, job.i)]
          [] job.phase = "second" ->
                LET body == processFunctionBody(node, uri, st)
                IN  [st |-> body.st,
                     job |-> IF body.panicked THEN [job EXCEPT !.phase = "panic"]
                             ELSE secondPass(job, program, job.i)]

RECURSIVE run(_, _, _)
run(st, uri, job) ==
    IF Running(job) THEN LET next == step(st, uri, job) IN run(next.st, uri, next.job)
    ELSE [st |-> st, panicked |-> job.phase = "panic"]

\* BuildFromAST(program, uri) run alone, program being the parse of src
BuildFromAST(st, src, uri) == run(st, uri, Job(src))

-----------------------------------------------------------------------------
(* Queries.  A query whose answer depends on the order of a map iteration   *)
(* gives the set of answers it can return.                                  *)

Range(f) == {f[x] : x \in DOMAIN f}

\* the symbols of a scope that open a scope of their own
Openers(scope) == {s \in Range(scope.Symbols) : s.Scope # <<>>}

\* the scope a Parent pointer of the current trees points to
deref(st, id) ==
    CASE id.kind = "Global" -> <<st.Global>>
      [] id.kind = "File" /\ id.uri \in DOMAIN st.FileScopes -> <<st.FileScopes[id.uri]>>
      [] id.kind = "Grimoire" /\ id.uri \in DOMAIN st.FileScopes ->
            LET held == {s.Scope[1] : s \in
                            {t \in Openers(st.FileScopes[id.uri]) :
                                /\ t.Scope[1].Grimoire # <<>>
                                /\ t.Scope[1].Grimoire[1].Addr = Address(id.uri, id.idx)}}
            IN  IF held = {} THEN <<>> ELSE <<CHOOSE x \in held : TRUE>>
      [] OTHER -> <<>>

LookupGrimoire(st, name) ==
    IF name \in DOMAIN st.Grimoires THEN <<st.Grimoires[name]>> ELSE <<>>

GetCurrentGrimoire(st, uri, line) ==
    IF uri \notin DOMAIN st.FileScopes THEN {<<>>}
    ELSE LET hits == {s.Scope[1].Grimoire : s \in
                        {t \in Openers(st.FileScopes[uri]) :
                            /\ t.Type = "Grimoire"
                            /\ t.Scope[1].Grimoire # <<>>
                            /\ line >= t.DefinitionLine}}
         IN  IF hits = {} THEN {<<>>} ELSE hits

RECURSIVE findScopeAtPosition(_, _)
\* the scopes the call can return; {} when it returns nil
findScopeAtPosition(scope, line) ==
    IF scope.StartLine > line \/ (scope.EndLine > 0 /\ scope.EndLine < line) THEN {}
    ELSE LET inner == UNION {findScopeAtPosition(s.Scope[1], line) : s \in Openers(scope)}
         IN  IF inner = {} THEN {scope} ELSE inner

RECURSIVE chain(_, _)
\* for s := scope; s != nil; s = s.Parent: the symbols collected
chain(st, scope) ==
    IF scope = <<>> THEN {}
    ELSE Range(scope[1].Symbols) \cup chain(st, deref(st, scope[1].Parent))

\* the lists GetLocalSymbols can return, each as the set of its symbols
GetLocalSymbols(st, uri, line) ==
    IF uri \notin DOMAIN st.FileScopes THEN {{}}
    ELSE LET found == findScopeAtPosition(st.FileScopes[uri], line)
         IN  {chain(st, <<s>>) :
                s \in IF found = {} THEN {st.FileScopes[uri]} ELSE found}

\* the "Grimoire" symbols the inner loop of GetGlobalSymbols can stop at
GrimoireSymbolsOf(st, name) ==
    {fs.Symbols[name] : fs \in
        {f \in Range(st.FileScopes) :
            name \in DOMAIN f.Symbols /\ f.Symbols[name].Type = "Grimoire"}}

\* GetGlobalSymbols giving the methods of those grimoires only whose symbol
\* some file scope still holds
GetGlobalSymbolsOfDeclared(st) ==
    LET declared == {n \in DOMAIN st.Grimoires : GrimoireSymbolsOf(st, n) # {}}
        picks == {f \in [declared -> UNION {GrimoireSymbolsOf(st, n) : n \in declared}] :
                    \A n \in declared : f[n] \in GrimoireSymbolsOf(st, n)}
        methods == UNION {Range(st.Grimoires[n].Methods) : n \in declared}
    IN  {Range(st.Global.Symbols) \cup Range(f) \cup methods : f \in picks}

\* the lists GetGlobalSymbols can return, each as the set of its symbols
GetGlobalSymbols(st) ==
    LET declared == {n \in DOMAIN st.Grimoires : GrimoireSymbolsOf(st, n) # {}}
        picks == {f \in [declared -> UNION {GrimoireSymbolsOf(st, n) : n \in declared}] :
                    \A n \in declared : f[n] \in GrimoireSymbolsOf(st, n)}
        methods == UNION {Range(g.Methods) : g \in Range(st.Grimoires)}
    IN  {Range(st.Global.Symbols) \cup Range(f) \cup methods : f \in picks}

RECURSIVE lookupSymbolInScope(_, _)
\* the symbols the call can return; {} when it returns nil
lookupSymbolInScope(name, scope) ==
    IF name \in DOMAIN scope.Symbols THEN {<<scope.Symbols[name]>>}
    ELSE UNION {lookupSymbolInScope(name, s.Scope[1]) : s \in Openers(scope)}

\* LookupSymbol that searches the scopes the file scope's symbols own before
\* the file scope itself
LookupSymbolNestedFirst(st, name, uri) ==
    IF name \in DOMAIN st.Global.Symbols THEN {<<st.Global.Symbols[name]>>}
    ELSE IF uri \notin DOMAIN st.FileScopes THEN {<<>>}
    ELSE LET found == UNION {lookupSymbolInScope(name, s.Scope[1]) :
                                s \in Openers(st.FileScopes[uri])}
         IN  IF found # {} THEN found
             ELSE IF name \in DOMAIN st.FileScopes[uri].Symbols
             THEN {<<st.FileScopes[uri].Symbols[name]>>}
             ELSE {<<>>}

LookupSymbol(st, name, uri) ==
    IF name \in DOMAIN st.Global.Symbols THEN {<<st.Global.Symbols[name]>>}
    ELSE IF uri \notin DOMAIN st.FileScopes THEN {<<>>}
    ELSE IF name \in DOMAIN st.FileScopes[uri].Symbols
         THEN {<<st.FileScopes[uri].Symbols[name]>>}
    ELSE LET found == UNION {lookupSymbolInScope(name, s.Scope[1]) :
                                s \in Openers(st.FileScopes[uri])}
         IN  IF found = {} THEN {<<>>} ELSE found

-----------------------------------------------------------------------------
(* The symbol table used alone: BuildFromAST calls, one after the other,    *)
(* on the programs of error-free texts.                                     *)

\* what a request handler returns: nil, or the elements of a list (of a
\* pointer: one element)
Reply(isNil, items) == [isNil |-> isNil, items |-> items]

\* lsp.Position
Position(line, character) == [Line |-> line, Character |-> character]

\* the call made last: its operation, its arguments and what it returned
Call(op, uri, text, err, pos, reply) ==
    [op |-> op, uri |-> uri, text |-> text, err |-> err, pos |-> pos, reply |-> reply]

NoCall == Call("none", "", Text(<<>>, 0), "", Position(0, 0), Reply(TRUE, {}))

Init ==
    /\ symbolTable = NewSymbolTable
    /\ documents = <<>>
    /\ initialized = FALSE
    /\ outbox = <<>>
    /\ panicked = FALSE
    /\ jobs = <<>>
    /\ last = NoCall
    /\ calls = 0

Build(uri, src) ==
    /\ ~panicked
    /\ calls < MaxBuilds
    /\ calls' = calls + 1
    /\ LET built == BuildFromAST(symbolTable, src, uri)
       IN  /\ symbolTable' = built.st
           /\ panicked' = built.panicked
    /\ last' = Call("BuildFromAST", uri, Text(src, 0), "", Position(0, 0), Reply(TRUE, {}))
    /\ UNCHANGED <<documents, initialized, outbox, jobs>>

Next == \E uri \in URIs, src \in Sources : Build(uri, src)

Spec == Init /\ [][Next]_vars

-----------------------------------------------------------------------------
(* The document store (CarrionDocumentStore) and the analyzer               *)

\* a Go slice: nil, or the list of its elements
Slice(isNil, list) == [isNil |-> isNil, list |-> list]

GetDocument(docs, uri) == IF uri \in DOMAIN docs THEN <<docs[uri]>> ELSE <<>>

\* AddDocument that keeps the entry of a uri already in the store
AddDocumentIfAbsent(docs, uri, languageID, text, version) ==
    docs @@ (uri :> [URI |-> uri, Text |-> text, Version |-> version,
                     LanguageID |-> languageID])

AddDocument(docs, uri, languageID, text, version) ==
    (uri :> [URI |-> uri, Text |-> text, Version |-> version,
             LanguageID |-> languageID]) @@ docs

\* changes is the list of content change events: [Text, Ranged], Ranged
\* telling whether the event has a Range
UpdateDocument(docs, uri, changes, version) ==
    IF GetDocument(docs, uri) = <<>> THEN docs
    ELSE IF Len(changes) = 0 THEN docs
    ELSE [docs EXCEPT ![uri].Text = changes[1].Text, ![uri].Version = version]

RemoveDocument(docs, uri) == [u \in DOMAIN docs \ {uri} |-> docs[u]]

\* the parser counts lines and columns from 1, so that the uint32 conversions
\* of lines 1643-1648 never wrap
createDiagnosticFromError(err) ==
    LET lineNum == IF err.Located THEN err.Line ELSE 1
        colNum == IF err.Located THEN err.Column ELSE 1
    IN  [Range |-> [Start |-> [Line |-> lineNum - 1,
                               Character |-> colNum - 1],
                    End |-> [Line |-> lineNum - 1,
                             Character |-> colNum + 10]],
         Severity |-> "error",
         Source |-> "carrion-lsp",
         Message |-> err.Message]

\* checkStringIndexing only logs: no diagnostics
performSemanticAnalysis(text) == <<>>

\* AnalyzeDocument with the rebuild of lines 660-662 run whatever the parser
\* reported
AnalyzeDocumentAlwaysBuilding(st, docs, uri) ==
    IF GetDocument(docs, uri) = <<>>
    THEN [st |-> st, panicked |-> FALSE, diagnostics |-> Slice(TRUE, <<>>)]
    ELSE LET doc == GetDocument(docs, uri)[1]
             errors == Errors(doc.Text)
             fromErrors == [k \in 1..Len(errors) |-> createDiagnosticFromError(errors[k])]
             diagnostics == IF Len(errors) = 0
                            THEN fromErrors \o performSemanticAnalysis(doc.Text)
                            ELSE fromErrors
             built == BuildFromAST(st, doc.Text.src, uri)
         IN  [st |-> built.st, panicked |-> built.panicked,
              diagnostics |-> Slice(FALSE, diagnostics)]

\* (*CarrionAnalyzer).AnalyzeDocument: the table after it, whether it
\* panicked, and the diagnostics it returns
AnalyzeDocument(st, docs, uri) ==
    IF GetDocument(docs, uri) = <<>>
    THEN [st |-> st, panicked |-> FALSE, diagnostics |-> Slice(TRUE, <<>>)]
    ELSE LET doc == GetDocument(docs, uri)[1]
             errors == Errors(doc.Text)
             fromErrors == [k \in 1..Len(errors) |-> createDiagnosticFromError(errors[k])]
             diagnostics == IF Len(errors) = 0
                            THEN fromErrors \o performSemanticAnalysis(doc.Text)
                            ELSE fromErrors
             built == IF Len(errors) = 0 THEN BuildFromAST(st, doc.Text.src, uri)
                      ELSE [st |-> st, panicked |-> FALSE]
         IN  [st |-> built.st, panicked |-> built.panicked,
              diagnostics |-> Slice(FALSE, diagnostics)]

-----------------------------------------------------------------------------
(* The query services of the analyzer.  Strings are sequences of characters *)
(* here, positions count from 0 as in the protocol.  A reply is nil or a    *)
(* list (a pointer: nil or one element), given as the set of its elements;  *)
(* each service gives the set of the replies it can return, one per order   *)
(* in which the maps of the symbol table can be iterated.                   *)

Maximum(S) == CHOOSE x \in S : \A y \in S : y <= x

Minimum(S) == CHOOSE x \in S : \A y \in S : x <= y

isIdentifierChar(c) ==
    c \in {"a", "b", "c", "d", "e", "f", "g", "h", "i", "j", "k", "l", "m",
           "n", "o", "p", "q", "r", "s", "t", "u", "v", "w", "x", "y", "z",
           "A", "B", "C", "D", "E", "F", "G", "H", "I", "J", "K", "L", "M",
           "N", "O", "P", "Q", "R", "S", "T", "U", "V", "W", "X", "Y", "Z",
           "0", "1", "2", "3", "4", "5", "6", "7", "8", "9", "_"}

\* strings.LastIndex(chars, c), c one character: 0-based, -1 if absent
LastIndex(chars, c) ==
    LET at == {k \in 1..Len(chars) : chars[k] = c}
    IN  IF at = {} THEN -1 ELSE Maximum(at) - 1

\* the last of strings.Fields(strings.TrimSpace(chars)), empty if none
LastField(chars) ==
    LET inked == {k \in 1..Len(chars) : chars[k] # " "}
    IN  IF inked = {} THEN <<>>
        ELSE LET end == Maximum(inked)
                 start == Minimum({k \in 1..end : \A j \in k..end : chars[j] # " "})
             IN  SubSeq(chars, start, end)

\* getSymbolAtPosition: the identifier around 0-based charPos and its range
getSymbolAtPosition(line, charPos) ==
    IF charPos >= Len(line) THEN [name |-> <<>>, start |-> 0, end |-> 0]
    ELSE LET start == Minimum({k \in 0..charPos :
                                  \A j \in (k + 1)..charPos : isIdentifierChar(line[j])})
             end == Maximum({k \in charPos..Len(line) :
                                  \A j \in (charPos + 1)..k : isIdentifierChar(line[j])})
         IN  IF start < end
             THEN [name |-> SubSeq(line, start + 1, end), start |-> start, end |-> end]
             ELSE [name |-> <<>>, start |-> 0, end |-> 0]

RECURSIVE openingParen(_, _, _)
\* the first loop of getFunctionCallContext from 0-based index i downwards:
\* the index of the unmatched "(", or -1
openingParen(line, i, parenDepth) ==
    IF i < 0 THEN -1
    ELSE IF line[i + 1] = ")" THEN openingParen(line, i - 1, parenDepth + 1)
    ELSE IF line[i + 1] = "(" THEN
            IF parenDepth = 0 THEN i ELSE openingParen(line, i - 1, parenDepth - 1)
    ELSE openingParen(line, i - 1, parenDepth)

\* getFunctionCallContext taking the last "(" left of the cursor, matched or not
getFunctionCallContextLastParen(line, charPos) ==
    LET parenPos == LastIndex(SubSeq(line, 1, charPos), "(")
        nameEnd == Maximum({-1} \cup {k \in 0..(parenPos - 1) : line[k + 1] # " "})
        nameStart == 1 + Maximum({-1} \cup {k \in 0..nameEnd : ~isIdentifierChar(line[k + 1])})
    IN  IF parenPos = -1 \/ nameStart > nameEnd
        THEN [funcName |-> <<>>, paramIndex |-> 0]
        ELSE [funcName |-> SubSeq(line, nameStart + 1, nameEnd + 1),
              paramIndex |-> Cardinality({k \in (parenPos + 2)..charPos : line[k] = ","})]

getFunctionCallContext(line, charPos) ==
    LET parenPos == openingParen(line, charPos - 1, 0)
        nameEnd == Maximum({-1} \cup {k \in 0..(parenPos - 1) : line[k + 1] # " "})
        nameStart == 1 + Maximum({-1} \cup {k \in 0..nameEnd : ~isIdentifierChar(line[k + 1])})
    IN  IF parenPos = -1 \/ nameStart > nameEnd
        THEN [funcName |-> <<>>, paramIndex |-> 0]
        ELSE [funcName |-> SubSeq(line, nameStart + 1, nameEnd + 1),
              paramIndex |-> Cardinality({k \in (parenPos + 2)..charPos : line[k] = ","})]

CompletionItem(label, kind) == [Label |-> label, Kind |-> kind]

CompletionItems(labels, kind) == {CompletionItem(label, kind) : label \in labels}
\* the keywords of getKeywordCompletions and isCarrionKeyword
Keywords ==
    {"spell", "grim", "init", "self", "if", "else",
     "otherwise", "for", "in", "while", "stop", "skip",
     "ignore", "return", "import", "match", "case", "attempt",
     "resolve", "ensnare", "raise", "as", "arcane", "arcanespell",
     "super", "check", "True", "False", "None", "and",
     "or", "not"}

\* the names of getBuiltinCompletions
BuiltinFunctions ==
    {"len", "print", "input", "int", "float",
     "str", "bool", "list", "tuple", "type",
     "enumerate", "pairs", "range", "max", "abs",
     "ord", "chr", "is_sametype", "Error", "help",
     "version", "modules", "fileRead", "fileWrite", "fileAppend",
     "fileExists", "osRunCommand", "osGetEnv", "osSetEnv", "osGetCwd",
     "osChdir", "osSleep", "osListDir", "osRemove", "osMkdir",
     "osExpandEnv", "timeNow", "timeNowNano", "timeSleep", "timeFormat",
     "timeParse", "timeDate", "timeAddDuration", "timeDiff"}

\* the names of getBuiltinGrimoireNames
BuiltinGrimoireNames ==
    {"Time", "String", "Array", "Math", "File", "OS",
     "Boolean", "Integer", "Float", "Debug"}

\* the string methods of getStringCompletions
StringMethods ==
    {"length", "upper", "lower", "reverse", "find", "contains",
     "char_at"}

\* getBuiltinGrimoireCompletions: the method names of a built-in grimoire
BuiltinGrimoireMethods(objectName) ==
    CASE objectName = "Time" ->
            {"now", "now_nano", "sleep", "format", "parse", "date",
             "add_duration", "diff"}
      [] objectName = "String" ->
            {"length", "upper", "lower", "reverse", "find", "contains",
             "char_at"}
      [] objectName = "Array" ->
            {"length", "append", "prepend", "pop", "shift", "contains",
             "index", "reverse", "sort"}
      [] objectName = "Math" ->
            {"abs", "sqrt", "pow", "sin", "cos", "tan",
             "log", "ceil", "floor", "round", "min", "max"}
      [] objectName = "File" ->
            {"read", "write", "append", "exists", "delete", "copy",
             "size"}
      [] objectName = "OS" ->
            {"run", "getenv", "setenv", "getcwd", "chdir", "listdir",
             "mkdir", "rmdir", "expandenv"}
      [] OTHER -> {}

\* builtinSigs of getBuiltinSignatureHelp: the parameter labels of a built-in
\* function, by its name
builtinSigs ==
    "print" :> <<"...args">>
        @@ "len" :> <<"object">>
        @@ "input" :> <<"prompt?">>
        @@ "int" :> <<"value">>
        @@ "float" :> <<"value">>
        @@ "str" :> <<"value">>
        @@ "bool" :> <<"value">>
        @@ "list" :> <<"iterable">>
        @@ "tuple" :> <<"iterable">>
        @@ "type" :> <<"object">>
        @@ "enumerate" :> <<"iterable">>
        @@ "pairs" :> <<"hash">>
        @@ "range" :> <<"start", "stop?", "step?">>
        @@ "max" :> <<"...args">>
        @@ "abs" :> <<"number">>
        @@ "ord" :> <<"char">>
        @@ "chr" :> <<"code">>
        @@ "is_sametype" :> <<"obj1", "obj2">>
        @@ "Error" :> <<"name", "message">>
        @@ "fileRead" :> <<"path">>
        @@ "fileWrite" :> <<"path", "content">>
        @@ "fileAppend" :> <<"path", "content">>
        @@ "fileExists" :> <<"path">>
        @@ "osRunCommand" :> <<"command">>
        @@ "osGetEnv" :> <<"name">>
        @@ "osSetEnv" :> <<"name", "value">>
        @@ "osGetCwd" :> <<>>
        @@ "osChdir" :> <<"path">>
        @@ "osSleep" :> <<"seconds">>
        @@ "osListDir" :> <<"path">>
        @@ "osRemove" :> <<"path">>
        @@ "osMkdir" :> <<"path">>
        @@ "osExpandEnv" :> <<"path">>
        @@ "timeNow" :> <<>>
        @@ "timeNowNano" :> <<>>
        @@ "timeSleep" :> <<"seconds">>
        @@ "timeFormat" :> <<"timestamp", "format">>
        @@ "timeParse" :> <<"format", "timeString">>
        @@ "timeDate" :> <<"timestamp">>
        @@ "timeAddDuration" :> <<"timestamp", "seconds">>
        @@ "timeDiff" :> <<"timestamp1", "timestamp2">>

\* the items made of the methods and the fields of a grimoire
getMethodsAndFieldsForGrimoire(grimoire) ==
    CompletionItems({m.Name : m \in Range(grimoire.Methods)}, "Method")
        \cup CompletionItems({f.Name : f \in Range(grimoire.Fields)}, "Field")

getSelfCompletions(st, uri, position) ==
    {IF currentGrimoire = <<>> THEN {}
     ELSE getMethodsAndFieldsForGrimoire(currentGrimoire[1]) :
        currentGrimoire \in GetCurrentGrimoire(st, uri, position.Line)}

getObjectCompletions(st, uri, objectName) ==
    {IF symbol = <<>> THEN {}
     ELSE IF symbol[1].Type \in {"instance", "variable"}
               /\ LookupGrimoire(st, symbol[1].GrimoireName) # <<>>
          THEN getMethodsAndFieldsForGrimoire(LookupGrimoire(st, symbol[1].GrimoireName)[1])
          ELSE {} :
        symbol \in LookupSymbol(st, objectName, uri)}

getStringCompletions(st, uri, objectName, textBeforeCursor) ==
    LET quoted == \E k \in 1..Len(textBeforeCursor) : textBeforeCursor[k] \in {"\"", "'"}
    IN  {IF quoted \/ (symbol # <<>> /\ symbol[1].ValueType \in {"string", "STRING"})
         THEN CompletionItems(StringMethods, "Method")
         ELSE {} :
            symbol \in LookupSymbol(st, objectName, uri)}

getGrimoireCompletions(st, uri, objectName) ==
    IF BuiltinGrimoireMethods(objectName) # {}
    THEN {CompletionItems(BuiltinGrimoireMethods(objectName), "Method")}
    ELSE {IF /\ symbol # <<>>
             /\ symbol[1].Type = "instance"
             /\ symbol[1].GrimoireName # ""
             /\ LookupGrimoire(st, symbol[1].GrimoireName) # <<>>
          THEN getMethodsAndFieldsForGrimoire(LookupGrimoire(st, symbol[1].GrimoireName)[1])
          ELSE IF /\ symbol # <<>>
                  /\ symbol[1].Type = "Grimoire"
                  /\ LookupGrimoire(st, symbol[1].Name) # <<>>
          THEN getMethodsAndFieldsForGrimoire(LookupGrimoire(st, symbol[1].Name)[1])
          ELSE IF LookupGrimoire(st, objectName) # <<>>
          THEN getMethodsAndFieldsForGrimoire(LookupGrimoire(st, objectName)[1])
          ELSE {} :
            symbol \in LookupSymbol(st, objectName, uri)}

getLocalCompletions(st, uri, position) ==
    {CompletionItems({symbol.Name : symbol \in locals}, "Variable") :
        locals \in GetLocalSymbols(st, uri, position.Line)}

getGlobalCompletions(st) ==
    {{CompletionItem(symbol.Name,
                     CASE symbol.Type = "Grimoire" -> "Class"
                       [] symbol.Type = "spell" -> "Function"
                       [] symbol.Type = "const" -> "Constant"
                       [] OTHER -> "Variable") : symbol \in globals} :
        globals \in GetGlobalSymbols(st)}

\* the item sets of the dot branch of GetCompletions (lines 708-730)
getMemberCompletions(st, uri, position, objectName, textBeforeCursor) ==
    IF objectName = "self" THEN getSelfCompletions(st, uri, position)
    ELSE UNION {IF stringCompletions # {} THEN {stringCompletions}
                ELSE UNION {IF grimoireCompletions # {} THEN {grimoireCompletions}
                            ELSE getObjectCompletions(st, uri, objectName) :
                                grimoireCompletions \in
                                    getGrimoireCompletions(st, uri, objectName)} :
                    stringCompletions \in
                        getStringCompletions(st, uri, objectName, textBeforeCursor)}

\* the item sets of the other branch of GetCompletions (lines 731-751)
getFreeCompletions(st, uri, position) ==
    {CompletionItems(Keywords, "Keyword") \cup CompletionItems(BuiltinFunctions, "Function")
        \cup locals \cup globals \cup CompletionItems(BuiltinGrimoireNames, "Class") :
        locals \in getLocalCompletions(st, uri, position),
        globals \in getGlobalCompletions(st)}

GetCompletions(st, docs, uri, position) ==
    IF GetDocument(docs, uri) = <<>> THEN {Reply(TRUE, {})}
    ELSE LET lines == SplitLines(GetDocument(docs, uri)[1].Text)
         IN  IF position.Line >= Len(lines) THEN {Reply(TRUE, {})}
             ELSE LET line == lines[position.Line + 1]
                      character == IF position.Character > Len(line) THEN Len(line)
                                   ELSE position.Character
                      textBeforeCursor == SubSeq(line, 1, character)
                      idx == LastIndex(textBeforeCursor, ".")
                      objectName == Word(LastField(SubSeq(textBeforeCursor, 1, idx)))
                      found == IF idx >= 0
                               THEN getMemberCompletions(st, uri, position, objectName,
                                                         textBeforeCursor)
                               ELSE getFreeCompletions(st, uri, position)
                  IN  {Reply(items = {}, items) : items \in found}

\* the location a definition request answers with
Location(symbol, symbolName) ==
    [URI |-> symbol.DefinitionURI,
     Range |-> [Start |-> Position(symbol.DefinitionLine, symbol.DefinitionColumn),
                End |-> Position(symbol.DefinitionLine,
                                 symbol.DefinitionColumn + Len(symbolName))]]

FindDefinition(st, docs, uri, position) ==
    IF GetDocument(docs, uri) = <<>> THEN {Reply(TRUE, {})}
    ELSE LET lines == SplitLines(GetDocument(docs, uri)[1].Text)
         IN  IF position.Line >= Len(lines) THEN {Reply(TRUE, {})}
             ELSE LET line == lines[position.Line + 1]
                      symbolName == getSymbolAtPosition(line, position.Character).name
                  IN  IF position.Character >= Len(line) \/ symbolName = <<>>
                      THEN {Reply(TRUE, {})}
                      ELSE {IF symbol = <<>> THEN Reply(TRUE, {})
                            ELSE Reply(FALSE, {Location(symbol[1], symbolName)}) :
                                symbol \in LookupSymbol(st, Word(symbolName), uri)}

\* the hover text, by what it is made of: the words of the format string
\* (Kind) and its arguments
HoverContent(kind, name, grimoireName, parameters, valueType, documentation) ==
    [Kind |-> kind, Name |-> name, GrimoireName |-> grimoireName,
     Parameters |-> parameters, ValueType |-> valueType,
     Documentation |-> documentation]

\* lines 1486-1535: the content for a symbol
symbolContent(symbol) ==
    LET params == [k \in 1..Len(symbol.Parameters) |-> symbol.Parameters[k].Name]
    IN  CASE symbol.Type = "Grimoire" ->
                HoverContent("Grimoire", symbol.Name, "", <<>>, "", symbol.Documentation)
          [] symbol.Type = "spell" ->
                HoverContent("spell", symbol.Name, "", params, "", symbol.Documentation)
          [] symbol.Type = "variable" ->
                HoverContent("variable", symbol.Name, "", <<>>, symbol.ValueType,
                             symbol.Documentation)
          [] symbol.Type = "field" ->
                HoverContent("field", symbol.Name, symbol.GrimoireName, <<>>, "",
                             symbol.Documentation)
          [] symbol.Type = "method" ->
                HoverContent("method", symbol.Name, symbol.GrimoireName, params, "",
                             symbol.Documentation)
          [] OTHER ->
                HoverContent(symbol.Type, symbol.Name, "", <<>>, "", symbol.Documentation)

\* the range getSymbolAtPosition gives: its positions have no Line set
Hover(content, at) ==
    [Contents |-> content,
     Range |-> [Start |-> Position(0, at.start), End |-> Position(0, at.end)]]

GetHoverInfo(st, docs, uri, position) ==
    IF GetDocument(docs, uri) = <<>> THEN {Reply(TRUE, {})}
    ELSE LET lines == SplitLines(GetDocument(docs, uri)[1].Text)
         IN  IF position.Line >= Len(lines) THEN {Reply(TRUE, {})}
             ELSE LET line == lines[position.Line + 1]
                      at == getSymbolAtPosition(line, position.Character)
                      symbolName == Word(at.name)
                  IN  IF position.Character >= Len(line) \/ at.name = <<>>
                      THEN {Reply(TRUE, {})}
                      ELSE IF symbolName \in Keywords
                      THEN {Reply(FALSE,
                                {Hover(HoverContent("keyword", symbolName, "", <<>>, "", ""),
                                       at)})}
                      ELSE {IF symbol = <<>> THEN Reply(TRUE, {})
                            ELSE Reply(FALSE, {Hover(symbolContent(symbol[1]), at)}) :
                                symbol \in LookupSymbol(st, symbolName, uri)}

SignatureHelp(label, parameters, activeParameter) ==
    [Signatures |-> <<[Label |-> label, Parameters |-> parameters]>>,
     ActiveSignature |-> 0,
     ActiveParameter |-> activeParameter]

getBuiltinSignatureHelp(funcName, paramIndex) ==
    IF funcName \in DOMAIN builtinSigs
    THEN LET params == builtinSigs[funcName]
             activeParam == IF paramIndex >= Len(params) /\ Len(params) > 0
                            THEN Len(params) - 1 ELSE paramIndex
         IN  Reply(FALSE,
                {SignatureHelp(funcName,
                               [k \in 1..Len(params) |-> Param(params[k], "", "")],
                               activeParam)})
    ELSE Reply(TRUE, {})

GetSignatureHelp(st, docs, uri, position) ==
    IF GetDocument(docs, uri) = <<>> THEN {Reply(TRUE, {})}
    ELSE LET lines == SplitLines(GetDocument(docs, uri)[1].Text)
         IN  IF position.Line >= Len(lines) THEN {Reply(TRUE, {})}
             ELSE LET line == lines[position.Line + 1]
                      context == getFunctionCallContext(line, position.Character)
                      funcName == Word(context.funcName)
                  IN  IF position.Character > Len(line) \/ context.funcName = <<>>
                      THEN {Reply(TRUE, {})}
                      ELSE {IF symbol = <<>> \/ symbol[1].Type \notin {"spell", "method"}
                            THEN getBuiltinSignatureHelp(funcName, context.paramIndex)
                            ELSE Reply(FALSE,
                                    {SignatureHelp(symbol[1].Name, symbol[1].Parameters,
                                                   context.paramIndex)}) :
                                symbol \in LookupSymbol(st, funcName, uri)}

-----------------------------------------------------------------------------
(* The server: one Handler, its requests handled one after the other.       *)

\* the texts clients send: error-free ones, and ones with malformed lines
ServerSources == {src \in Sources : Len(src) <= 1 \/ src[Len(src)] = "AssignFoo"}

ServerTexts ==
    {Text(src, 0) : src \in ServerSources}
        \cup {Text(src, bad) : src \in {<<>>, <<"GrimBar">>}, bad \in 1..MaxErrors}

\* the content change lists clients send
ChangeLists ==
    {<<>>} \cup {<<[Text |-> text, Ranged |-> ranged]>> :
                    text \in ServerTexts, ranged \in BOOLEAN}

Methods == {"initialize", "shutdown", "textDocument/didOpen",
            "textDocument/didChange", "textDocument/didClose"}

\* what every handled request does besides its own effect
Handled(method, uri, text, err) ==
    /\ ~panicked
    /\ calls < MaxRequests
    /\ calls' = calls + 1
    /\ last' = Call(method, uri, text, err, Position(0, 0), Reply(TRUE, {}))
    /\ UNCHANGED jobs

\* sendDiagnostics: one textDocument/publishDiagnostics notification
sendDiagnostics(uri, diagnostics) ==
    <<[method |-> "textDocument/publishDiagnostics", URI |-> uri,
       Diagnostics |-> diagnostics]>>

\* Handle, lines 56-58: any method but initialize, before initialization
Rejected(method) ==
    /\ ~initialized
    /\ method # "initialize"
    /\ Handled(method, "", Text(<<>>, 0), "server not initialized")
    /\ outbox' = <<>>
    /\ UNCHANGED <<symbolTable, documents, initialized, panicked>>

\* a request whose params json.Unmarshal rejects
Undecodable(method) ==
    /\ initialized \/ method = "initialize"
    /\ method # "shutdown"
    /\ Handled(method, "", Text(<<>>, 0), "invalid params")
    /\ outbox' = <<>>
    /\ UNCHANGED <<symbolTable, documents, initialized, panicked>>

handleInitialize ==
    /\ Handled("initialize", "", Text(<<>>, 0), "")
    /\ initialized' = TRUE
    /\ outbox' = <<>>
    /\ UNCHANGED <<symbolTable, documents, panicked>>

\* handleShutdown leaving the handler initialized
handleShutdownStayingInitialized ==
    /\ initialized
    /\ Handled("shutdown", "", Text(<<>>, 0), "")
    /\ initialized' = initialized
    /\ outbox' = <<>>
    /\ UNCHANGED <<symbolTable, documents, panicked>>

handleShutdown ==
    /\ initialized
    /\ Handled("shutdown", "", Text(<<>>, 0), "")
    /\ initialized' = FALSE
    /\ outbox' = <<>>
    /\ UNCHANGED <<symbolTable, documents, panicked>>

\* the analysis and publication both didOpen and didChange end with
analyseAndPublish(uri) ==
    LET analysis == AnalyzeDocument(symbolTable, documents', uri)
    IN  /\ symbolTable' = analysis.st
        /\ panicked' = analysis.panicked
        /\ outbox' = IF analysis.panicked THEN <<>>
                     ELSE sendDiagnostics(uri, analysis.diagnostics)

handleTextDocumentDidOpen(uri, text, version) ==
    /\ initialized
    /\ Handled("textDocument/didOpen", uri, text, "")
    /\ documents' = AddDocument(documents, uri, "carrion", text, version)
    /\ analyseAndPublish(uri)
    /\ UNCHANGED initialized

handleTextDocumentDidChange(uri, changes, version) ==
    /\ initialized
    /\ documents' = UpdateDocument(documents, uri, changes, version)
    /\ Handled("textDocument/didChange", uri,
               IF uri \in DOMAIN documents' THEN documents'[uri].Text ELSE Text(<<>>, 0),
               "")
    /\ analyseAndPublish(uri)
    /\ UNCHANGED initialized

\* handleTextDocumentDidClose that evicts the file scope of the closed uri
handleTextDocumentDidCloseEvicting(uri) ==
    /\ initialized
    /\ Handled("textDocument/didClose", uri, Text(<<>>, 0), "")
    /\ documents' = RemoveDocument(documents, uri)
    /\ outbox' = sendDiagnostics(uri, Slice(TRUE, <<>>))
    /\ symbolTable' = [symbolTable EXCEPT !.FileScopes =
                            [u \in DOMAIN @ \ {uri} |-> @[u]]]
    /\ UNCHANGED <<initialized, panicked>>

handleTextDocumentDidClose(uri) ==
    /\ initialized
    /\ Handled("textDocument/didClose", uri, Text(<<>>, 0), "")
    /\ documents' = RemoveDocument(documents, uri)
    /\ outbox' = sendDiagnostics(uri, Slice(TRUE, <<>>))
    /\ UNCHANGED <<symbolTable, initialized, panicked>>

NextServer ==
    \/ \E method \in Methods : Rejected(method)
    \/ \E method \in Methods : Undecodable(method)
    \/ handleInitialize
    \/ handleShutdown
    \/ \E uri \in URIs, text \in ServerTexts, version \in 1..MaxVersion :
            handleTextDocumentDidOpen(uri, text, version)
    \/ \E uri \in URIs, changes \in ChangeLists, version \in 1..MaxVersion :
            handleTextDocumentDidChange(uri, changes, version)
    \/ \E uri \in URIs : handleTextDocumentDidClose(uri)

SpecServer == Init /\ [][NextServer]_vars

-----------------------------------------------------------------------------
(* The server with its query requests.  A query reads the document store    *)
(* and the symbol table and returns one of the replies the service can give.*)

QueryMethods == {"textDocument/completion", "textDocument/definition",
                 "textDocument/hover", "textDocument/signatureHelp"}

\* the positions clients ask about: every position of the document, one
\* character past the end of each line and one line past the last
Positions(uri) ==
    IF uri \notin DOMAIN documents THEN {Position(0, 0)}
    ELSE LET lines == SplitLines(documents[uri].Text)
         IN  {Position(Len(lines), 0)}
                \cup UNION {{Position(l - 1, c) : c \in 0..(Len(lines[l]) + 1)} :
                                l \in 1..Len(lines)}

\* Handle, lines 56-58, for a query: it is answered once initialized
Answering == initialized /\ ~panicked /\ calls < MaxRequests

\* what every handled query does: it returns reply and changes nothing
Queried(method, uri, position, reply) ==
    /\ calls' = calls + 1
    /\ last' = Call(method, uri, Text(<<>>, 0), "", position, reply)
    /\ outbox' = <<>>
    /\ UNCHANGED <<symbolTable, documents, initialized, panicked, jobs>>

handleTextDocumentCompletion(uri, position) ==
    /\ Answering
    /\ \E completions \in GetCompletions(symbolTable, documents, uri, position) :
            Queried("textDocument/completion", uri, position, completions)

handleTextDocumentDefinition(uri, position) ==
    /\ Answering
    /\ \E locations \in FindDefinition(symbolTable, documents, uri, position) :
            Queried("textDocument/definition", uri, position, locations)

handleTextDocumentHover(uri, position) ==
    /\ Answering
    /\ \E hoverInfo \in GetHoverInfo(symbolTable, documents, uri, position) :
            Queried("textDocument/hover", uri, position, hoverInfo)

handleTextDocumentSignatureHelp(uri, position) ==
    /\ Answering
    /\ \E signatureHelp \in GetSignatureHelp(symbolTable, documents, uri, position) :
            Queried("textDocument/signatureHelp", uri, position, signatureHelp)

\* the texts the queried documents hold
QueryTexts ==
    {Text(<<"GrimFoo", "AssignX">>, 0), Text(<<"SpellFoo", "AssignX">>, 0),
     Text(<<>>, 1)}

NextQuery ==
    \/ \E method \in Methods \cup QueryMethods : Rejected(method)
    \/ handleInitialize
    \/ handleShutdown
    \/ \E uri \in URIs, text \in QueryTexts :
            handleTextDocumentDidOpen(uri, text, 1)
    \/ \E uri \in URIs : handleTextDocumentDidClose(uri)
    \/ \E uri \in URIs : \E position \in Positions(uri) :
            handleTextDocumentCompletion(uri, position)
    \/ \E uri \in URIs : \E position \in Positions(uri) :
            handleTextDocumentDefinition(uri, position)
    \/ \E uri \in URIs : \E position \in Positions(uri) :
            handleTextDocumentHover(uri, position)
    \/ \E uri \in URIs : \E position \in Positions(uri) :
            handleTextDocumentSignatureHelp(uri, position)

SpecQuery == Init /\ [][NextQuery]_vars

-----------------------------------------------------------------------------
(* The symbol table under concurrent use, as the transport may dispatch     *)
(* requests concurrently and the table takes no lock: BuildFromAST calls    *)
(* for different uris advance statement by statement, interleaved, and a    *)
(* reader may run between any two steps.                                    *)

\* the texts rebuilt concurrently
ConcSources == {src \in Sources : Len(src) <= 1}
                  \cup {<<"GrimFoo", "AssignX">>, <<"GrimBar", "GrimFoo2">>}

\* st.FileScopes[uri], as the map lookup of a reader gives it
FileScopeAt(st, uri) ==
    IF uri \in DOMAIN st.FileScopes THEN <<st.FileScopes[uri]>> ELSE <<>>

\* a BuildFromAST(program, uri) call is entered; old is the generation of
\* the file's scope tree at that time
Start(uri, src) ==
    /\ ~panicked
    /\ calls < MaxBuilds
    /\ uri \in DOMAIN jobs => ~Running(jobs[uri].job)
    /\ calls' = calls + 1
    /\ jobs' = (uri :> [job |-> Job(src), old |-> FileScopeAt(symbolTable, uri)]) @@ jobs
    /\ UNCHANGED <<symbolTable, documents, initialized, outbox, panicked, last>>

\* the BuildFromAST call running for uri executes its next statement
Step(uri) ==
    /\ ~panicked
    /\ uri \in DOMAIN jobs
    /\ Running(jobs[uri].job)
    /\ LET next == step(symbolTable, uri, jobs[uri].job)
       IN  /\ symbolTable' = next.st
           /\ jobs' = [jobs EXCEPT ![uri].job = next.job]
           /\ panicked' = (next.job.phase = "panic")
    /\ UNCHANGED <<documents, initialized, outbox, last, calls>>

NextConc ==
    \/ \E uri \in URIs, src \in ConcSources : Start(uri, src)
    \/ \E uri \in URIs : Step(uri)

SpecConc == Init /\ [][NextConc]_vars

-----------------------------------------------------------------------------
(* The document store under concurrent use: the store takes no lock, and an *)
(* UpdateDocument call is its statements, one after the other, with the     *)
(* statements of other calls between them.  jobs holds the calls made, by   *)
(* the order they were entered in:                                          *)
(*   pc "text"     before doc.Text = changes[0].Text                        *)
(*   pc "version"  before doc.Version = version                             *)
(*   pc "done"     returned                                                 *)

MaxUpdates == 3

\* the texts the documents are opened with and changed to
ConcTexts == {Text(<<>>, 0), Text(<<"GrimBar">>, 0), Text(<<"AssignX">>, 0)}

ConcChangeLists ==
    {<<>>} \cup {<<[Text |-> text, Ranged |-> ranged]>> :
                    text \in ConcTexts, ranged \in BOOLEAN}

\* a call of the store: what it was called with and where it stands
StoreCall(op, uri, text, version, pc) ==
    [op |-> op, uri |-> uri, text |-> text, version |-> version, pc |-> pc]

\* an UpdateDocument call for uri is between two of its statements
Updating(uri) ==
    \E id \in DOMAIN jobs : jobs[id].uri = uri /\ jobs[id].pc \in {"text", "version"}

\* AddDocument(uri, "carrion", text, version), while no change of uri runs
OpenDocument(uri, text, version) ==
    /\ calls < MaxUpdates
    /\ ~Updating(uri)
    /\ calls' = calls + 1
    /\ documents' = AddDocument(documents, uri, "carrion", text, version)
    /\ jobs' = Append(jobs, StoreCall("AddDocument", uri, text, version, "done"))
    /\ last' = Call("AddDocument", uri, text, "", Position(0, 0), Reply(TRUE, {}))
    /\ UNCHANGED <<symbolTable, initialized, outbox, panicked>>

\* UpdateDocument(uri, changes, version) is entered: lines 767-777, up to the
\* return for an unknown uri or an empty change list
StartUpdate(uri, changes, version) ==
    /\ calls < MaxUpdates
    /\ calls' = calls + 1
    /\ jobs' = Append(jobs,
            IF GetDocument(documents, uri) = <<>> \/ Len(changes) = 0
            THEN StoreCall("UpdateDocument", uri, Text(<<>>, 0), version, "returned")
            ELSE StoreCall("UpdateDocument", uri, changes[1].Text, version, "text"))
    /\ last' = Call("UpdateDocument", uri, Text(<<>>, 0), "", Position(0, 0),
                    Reply(TRUE, {}))
    /\ UNCHANGED <<symbolTable, documents, initialized, outbox, panicked>>

\* the UpdateDocument call id executes its next assignment (lines 781-782,
\* 789-790)
StepUpdate(id) ==
    /\ id \in DOMAIN jobs
    /\ jobs[id].pc \in {"text", "version"}
    /\ documents' =
            IF jobs[id].pc = "text"
            THEN [documents EXCEPT ![jobs[id].uri].Text = jobs[id].text]
            ELSE [documents EXCEPT ![jobs[id].uri].Version = jobs[id].version]
    /\ jobs' = [jobs EXCEPT ![id].pc = IF jobs[id].pc = "text" THEN "version" ELSE "done"]
    /\ UNCHANGED <<symbolTable, initialized, outbox, panicked, last, calls>>

NextStore ==
    \/ \E uri \in URIs, text \in ConcTexts, version \in 1..MaxVersion :
            OpenDocument(uri, text, version)
    \/ \E uri \in URIs, changes \in ConcChangeLists, version \in 1..MaxVersion :
            StartUpdate(uri, changes, version)
    \/ \E id \in 1..MaxUpdates : StepUpdate(id)

SpecStore == Init /\ [][NextStore]_vars

-----------------------------------------------------------------------------
(* What the claims quantify over *)

Names == {"Foo", "Bar", "bar", "baz", "qux", "run", "init", "self", "a", "x", "y", "z",
          "w", "p", "i", "v", "t", "e", "u", "m", "r"}

\* the 0-based lines of the longest text
Lines == 0..(MaxStmts * (CHOOSE h \in {Height(s) : s \in Snippets} :
                            \A s \in Snippets : Height(s) <= h))

\* the program of the text the last call was about
Program == ParseProgram(last.text.src)

\* the top-level grimoire definitions of a program
GrimoiresOf(program) ==
    {k \in 1..Len(program) : program[k].kind = "GrimoireDefinition"}

\* the methods written in the body of a grimoire definition, the initializer
\* included
DeclaredMethods(node) ==
    {node.Methods[k] : k \in 1..Len(node.Methods)}
        \cup {node.InitMethod[k] : k \in 1..Len(node.InitMethod)}

\* the top-level spells of a program and the methods of its grimoires
FunctionsOf(program) ==
    {program[k] : k \in {j \in 1..Len(program) : program[j].kind = "FunctionDefinition"}}
        \cup UNION {DeclaredMethods(program[k]) : k \in GrimoiresOf(program)}

\* no later top-level grimoire definition of the program has the name of the k-th
LastDeclaration(program, k) ==
    \A j \in GrimoiresOf(program) : program[j].Name = program[k].Name => j <= k

RECURSIVE AssignedIn(_)
\* the bare identifiers assigned in a statement list, at any nesting depth of
\* if, for, while and attempt
AssignedIn(stmts) ==
    IF Len(stmts) = 0 THEN {}
    ELSE LET s == Head(stmts)
             here ==
                CASE s.kind = "AssignStatement" -> {s.Name} \ {""}
                  [] s.kind = "IfStatement" ->
                        AssignedIn(s.Consequence) \cup AssignedIn(s.Alternative)
                            \cup UNION {AssignedIn(s.OtherwiseBranches[k]) :
                                            k \in 1..Len(s.OtherwiseBranches)}
                  [] s.kind = "ForStatement" ->
                        AssignedIn(s.Body) \cup AssignedIn(s.Alternative)
                  [] s.kind = "WhileStatement" -> AssignedIn(s.Body)
                  [] s.kind = "AttemptStatement" ->
                        AssignedIn(s.TryBlock) \cup AssignedIn(s.ResolveBlock)
                            \cup UNION {AssignedIn(s.EnsnareClauses[k].Consequence) :
                                            k \in 1..Len(s.EnsnareClauses)}
                  [] OTHER -> {}
         IN  here \cup AssignedIn(Tail(stmts))

\* symbol sym is the method symbol of the method definition node of grimoire owner
IsMethodSymbol(sym, node, owner) ==
    /\ sym.Name = node.Name
    /\ sym.Type = "method"
    /\ sym.GrimoireName = owner
    /\ sym.DefinitionLine = node.Token.Line - 1

\* the list holds one method symbol per definition of nodes, and no other
ExactlyTheMethods(list, nodes, owner) ==
    /\ Len(list) = Cardinality(nodes)
    /\ \A node \in nodes : \E k \in 1..Len(list) : IsMethodSymbol(list[k], node, owner)
    /\ \A k \in 1..Len(list) : \E node \in nodes : IsMethodSymbol(list[k], node, owner)

\* the answer of every query about the file uri
QueriesAbout(st, uri) ==
    [LookupSymbol |-> [n \in Names |-> LookupSymbol(st, n, uri)],
     GetLocalSymbols |-> [l \in Lines |-> GetLocalSymbols(st, uri, l)],
     GetCurrentGrimoire |-> [l \in Lines |-> GetCurrentGrimoire(st, uri, l)]]

\* the names of the grimoires the file scope of uri holds
GrimoireNamesIn(st, uri) ==
    IF uri \in DOMAIN st.FileScopes
    THEN {sym.Name : sym \in {t \in Range(st.FileScopes[uri].Symbols) : t.Type = "Grimoire"}}
    ELSE {}

\* the names of the grimoires declared at top level of a text
DeclaredGrimoires(src) ==
    {ParseProgram(src)[k].Name : k \in GrimoiresOf(ParseProgram(src))}

\* a BuildFromAST call on an error-free document has just returned or panicked
Built == last.op = "BuildFromAST"

\* every answer of every lookup operation
Answers(st) ==
    [LookupSymbol |-> [n \in Names, u \in URIs |-> LookupSymbol(st, n, u)],
     LookupGrimoire |-> [n \in Names |-> LookupGrimoire(st, n)],
     GetLocalSymbols |-> [u \in URIs, l \in Lines |-> GetLocalSymbols(st, u, l)],
     GetCurrentGrimoire |-> [u \in URIs, l \in Lines |-> GetCurrentGrimoire(st, u, l)],
     GetGlobalSymbols |-> GetGlobalSymbols(st)]

-----------------------------------------------------------------------------
\* C1: rebuild atomicity.  While BuildFromAST(program, uri) runs, a reader of
\* that uri finds in FileScopes either the complete previous generation of
\* the file's scope tree or the complete new one, never a file scope that is
\* installed but not yet populated.
C1_RebuildAtomic ==
    \A uri \in DOMAIN jobs :
        Running(jobs[uri].job) =>
            FileScopeAt(symbolTable, uri) \in
                {jobs[uri].old,
                 FileScopeAt(run(symbolTable, uri, jobs[uri].job).st, uri)}

\* C2 as stated: no cross-file interference.  For distinct uris A and B, no
\* step of a rebuild of A changes the result of LookupSymbol(name, B),
\* GetLocalSymbols(B, line), GetCurrentGrimoire(B, line), or of
\* LookupGrimoire(name) for a grimoire name declared in B, also when A
\* declares a grimoire of the same name as one of B.
C2_NoInterference ==
    [][\A A \in URIs : Step(A) =>
        \A B \in URIs \ {A} :
            /\ QueriesAbout(symbolTable', B) = QueriesAbout(symbolTable, B)
            /\ \A name \in GrimoireNamesIn(symbolTable, B) :
                  LookupGrimoire(symbolTable', name) = LookupGrimoire(symbolTable, name)]_vars

\* C2 as amended: for distinct uris A and B, no step of a rebuild of A changes
\* the result of LookupSymbol(name, B), GetLocalSymbols(B, line) or
\* GetCurrentGrimoire(B, line), and none changes LookupGrimoire(name) for a
\* grimoire name declared in B unless the text of A declares a grimoire of
\* that name (the registry is keyed by name alone: the last declaration wins).
C2_NoInterferenceButByName ==
    [][\A A \in URIs : Step(A) =>
        \A B \in URIs \ {A} :
            /\ QueriesAbout(symbolTable', B) = QueriesAbout(symbolTable, B)
            /\ \A name \in GrimoireNamesIn(symbolTable, B) \ DeclaredGrimoires(jobs[A].job.src) :
                  LookupGrimoire(symbolTable', name) = LookupGrimoire(symbolTable, name)]_vars

\* a rebuild of A that declares grimoire Bar has registered it, and is still
\* running, while B holds a built grimoire Foo that A does not declare
C2_Witness ==
    \E A \in DOMAIN jobs : \E B \in URIs \ {A} :
        /\ Running(jobs[A].job)
        /\ jobs[A].job.phase # "install"
        /\ "Bar" \in DeclaredGrimoires(jobs[A].job.src)
        /\ "Bar" \in GrimoireNamesIn(symbolTable, A)
        /\ "Foo" \in GrimoireNamesIn(symbolTable, B) \ DeclaredGrimoires(jobs[A].job.src)
        /\ LookupGrimoire(symbolTable, "Foo") # <<>>
        /\ Len(LookupGrimoire(symbolTable, "Foo")[1].Methods) > 0

\* C3: a failed parse leaves the symbol table unchanged.  When didOpen or
\* didChange has AnalyzeDocument(uri) parse a text for which the parser
\* reports one or more errors, the whole symbol table (every file scope, the
\* grimoire registry, the global scope) is the same before and after, and
\* the diagnostics published are those of the errors of the newest text.
C3_FailedParseKeepsTable ==
    [][\A uri \in URIs, version \in 1..MaxVersion :
        /\ \A text \in ServerTexts :
            (handleTextDocumentDidOpen(uri, text, version) /\ Len(Errors(text)) > 0)
                => /\ symbolTable' = symbolTable
                   /\ outbox' = sendDiagnostics(uri, Slice(FALSE,
                        [k \in 1..Len(Errors(text)) |->
                            createDiagnosticFromError(Errors(text)[k])]))
        /\ \A changes \in ChangeLists \ {<<>>} :
            (/\ handleTextDocumentDidChange(uri, changes, version)
             /\ uri \in DOMAIN documents
             /\ Len(Errors(changes[1].Text)) > 0)
                => /\ symbolTable' = symbolTable
                   /\ outbox' = sendDiagnostics(uri, Slice(FALSE,
                        [k \in 1..Len(Errors(changes[1].Text)) |->
                            createDiagnosticFromError(Errors(changes[1].Text)[k])]))]_vars

\* a document whose last build registered a grimoire with methods has been
\* changed to a text with parse errors, and the errors have been published
C3_Witness ==
    /\ last.op = "textDocument/didChange"
    /\ last.uri \in DOMAIN documents
    /\ Len(Errors(documents[last.uri].Text)) > 0
    /\ last.uri \in DOMAIN symbolTable.FileScopes
    /\ GrimoireNamesIn(symbolTable, last.uri) # {}
    /\ \E name \in GrimoireNamesIn(symbolTable, last.uri) :
          /\ LookupGrimoire(symbolTable, name) # <<>>
          /\ Len(LookupGrimoire(symbolTable, name)[1].Methods) > 0
    /\ Len(outbox) = 1
    /\ Len(outbox[1].Diagnostics.list) > 0

-----------------------------------------------------------------------------
\* C4: rebuild idempotence.  Calling BuildFromAST(ast, uri) a second time in a
\* row with the same error-free AST and uri leaves the answer of every lookup
\* operation (LookupSymbol, LookupGrimoire, GetLocalSymbols, GetCurrentGrimoire,
\* GetGlobalSymbols) as it was after the first call, the kind and owning class
\* of every symbol included.
C4_RebuildIdempotent ==
    [][\A uri \in URIs, src \in Sources :
        (Built /\ last.uri = uri /\ last.text = Text(src, 0) /\ Build(uri, src))
            => Answers(symbolTable') = Answers(symbolTable)]_vars

\* C5: rebuild never fails.  BuildFromAST on the AST of an error-free text
\* completes without a panic in every reachable state of the symbol table.
C5_RebuildNeverFails == ~panicked

\* C6 as stated: after BuildFromAST on an error-free document, LookupGrimoire
\* is non-none for every grimoire declared at top level of the document, and
\* the Methods list it returns holds exactly one method symbol per method
\* declared in that grimoire's body (the initializer included), no others,
\* each owned by the grimoire.
C6_MethodsOfEveryDeclaration ==
    Built =>
        \A k \in GrimoiresOf(Program) :
            LET found == LookupGrimoire(symbolTable, Program[k].Name)
            IN  /\ found # <<>>
                /\ ExactlyTheMethods(found[1].Methods, DeclaredMethods(Program[k]),
                                     Program[k].Name)

\* C6 as amended: after BuildFromAST on an error-free document, LookupGrimoire
\* is non-none for every grimoire name declared at top level, and the Methods
\* list it returns holds exactly one method symbol per method declared in the
\* body of the last top-level declaration of that name (the initializer
\* included), no others, each owned by the grimoire.
C6_MethodsOfLastDeclaration ==
    Built =>
        \A k \in GrimoiresOf(Program) :
            LET found == LookupGrimoire(symbolTable, Program[k].Name)
            IN  /\ found # <<>>
                /\ LastDeclaration(Program, k) =>
                        ExactlyTheMethods(found[1].Methods, DeclaredMethods(Program[k]),
                                          Program[k].Name)

\* a document that declares grimoire Foo twice, with different methods, is built
C6_Witness ==
    /\ Built
    /\ \E j, k \in GrimoiresOf(Program) :
        /\ j < k
        /\ Program[j].Name = Program[k].Name
        /\ DeclaredMethods(Program[j]) # {}
        /\ \A m \in DeclaredMethods(Program[j]) :
              \A n \in DeclaredMethods(Program[k]) : m.Name # n.Name
        /\ Len(LookupGrimoire(symbolTable, Program[k].Name)[1].Methods) > 0

\* C7: assignment-driven field discovery.  After BuildFromAST on an error-free
\* document, for every grimoire C and every assignment to a bare identifier in
\* the body of a method of C, at any nesting depth of if/for/while/attempt,
\* LookupGrimoire(C).Fields holds a symbol of that name, of kind "field",
\* owned by C.
C7_FieldsDiscovered ==
    Built =>
        \A k \in GrimoiresOf(Program) :
            \A method \in DeclaredMethods(Program[k]) :
                \A name \in AssignedIn(method.Body) :
                    LET found == LookupGrimoire(symbolTable, Program[k].Name)
                    IN  /\ found # <<>>
                        /\ \E f \in Range(found[1].Fields) :
                            /\ f.Name = name
                            /\ f.Type = "field"
                            /\ f.GrimoireName = Program[k].Name

\* C8: method lookup round trip.  After BuildFromAST on an error-free
\* document, LookupSymbol(m, uri) returns, for every method m declared in a
\* grimoire of the document, a non-none symbol of kind "method" whose
\* Parameters are the declared parameters in order, each with its default
\* value text.
C8_MethodsFoundByName ==
    Built =>
        \A k \in GrimoiresOf(Program) :
            \A method \in DeclaredMethods(Program[k]) :
                \A found \in LookupSymbol(symbolTable, method.Name, last.uri) :
                    /\ found # <<>>
                    /\ found[1].Type = "method"
                    /\ found[1].Parameters = method.Parameters

\* C9: after a document with zero parse errors is opened and analysed,
\* GetGlobalSymbols() holds, for every grimoire declared at its top level, a
\* symbol of kind "Grimoire" with that name and, for every method of that
\* grimoire, a symbol of kind "method" with the method's name, owned by the
\* grimoire.
C9_GlobalSymbolsOfOpened ==
    (/\ last.op = "textDocument/didOpen"
     /\ last.err = ""
     /\ Len(Errors(last.text)) = 0
     /\ ~panicked) =>
        \A k \in GrimoiresOf(Program) :
            \A symbols \in GetGlobalSymbols(symbolTable) :
                /\ \E sym \in symbols :
                      sym.Type = "Grimoire" /\ sym.Name = Program[k].Name
                /\ \A method \in DeclaredMethods(Program[k]) :
                      \E sym \in symbols :
                          /\ sym.Type = "method"
                          /\ sym.Name = method.Name
                          /\ sym.GrimoireName = Program[k].Name

\* C10: no leaked locals.  For every built document and every line smaller
\* than the start line of every function of the file, GetLocalSymbols(uri,
\* line) returns only symbols held directly in the file scope or in the global
\* scope.
C10_NoLeakedLocals ==
    (Built /\ ~panicked) =>
        \A line \in Lines :
            (\A f \in FunctionsOf(Program) : line < f.Token.Line - 1) =>
                \A list \in GetLocalSymbols(symbolTable, last.uri, line) :
                    list \subseteq
                        Range(symbolTable.FileScopes[last.uri].Symbols)
                            \cup Range(symbolTable.Global.Symbols)

-----------------------------------------------------------------------------
\* the line of the open document uri that position is on
LineAt(uri, position) == SplitLines(documents[uri].Text)[position.Line + 1]

\* position is not a position of the open document uri: its line is not a
\* line of the text, or its character is past the end of its line
OutOfRange(uri, position) ==
    \/ position.Line >= Len(SplitLines(documents[uri].Text))
    \/ position.Character > Len(LineAt(uri, position))

\* the identifier at position resolves to no symbol and is no keyword
Unresolved(uri, position) ==
    LET at == getSymbolAtPosition(LineAt(uri, position), position.Character)
    IN  /\ position.Character < Len(LineAt(uri, position))
        /\ at.name # <<>>
        /\ Word(at.name) \notin Keywords
        /\ LookupSymbol(symbolTable, Word(at.name), uri) = {<<>>}

\* C11: the query services never fail.  GetCompletions, GetHoverInfo,
\* FindDefinition and GetSignatureHelp, asked about a uri that is not in the
\* store, a line that is not a line of the text or a character past the end
\* of its line, return none/empty (and hover and definition do so for an
\* identifier that resolves to nothing), and no query panics or changes the
\* document store or the symbol table.
C11_QueriesNeverFail ==
    [][\A uri \in URIs : \A position \in Positions(uri) :
        (\/ handleTextDocumentCompletion(uri, position)
         \/ handleTextDocumentDefinition(uri, position)
         \/ handleTextDocumentHover(uri, position)
         \/ handleTextDocumentSignatureHelp(uri, position))
            => /\ ~panicked'
               /\ documents' = documents
               /\ symbolTable' = symbolTable
               /\ (\/ uri \notin DOMAIN documents
                   \/ OutOfRange(uri, position)
                   \/ (/\ last'.op \in {"textDocument/definition", "textDocument/hover"}
                       /\ Unresolved(uri, position)))
                    => last'.reply = Reply(TRUE, {})]_vars

-----------------------------------------------------------------------------
\* what AnalyzeDocument(uri) is to do in a step that calls it, the store
\* being documents': return (not panic); for an unknown uri give the empty
\* result and leave the table alone; for a known one give one diagnostic of
\* severity "error" per parser error, in the parser's order, and rebuild the
\* entry of uri if and only if there are no errors
Analysed(uri) ==
    /\ ~panicked'
    /\ IF uri \notin DOMAIN documents'
       THEN /\ outbox' = sendDiagnostics(uri, Slice(TRUE, <<>>))
            /\ symbolTable' = symbolTable
       ELSE LET errors == Errors(documents'[uri].Text)
            IN  /\ Len(outbox') = 1
                /\ outbox'[1].URI = uri
                /\ Len(outbox'[1].Diagnostics.list) = Len(errors)
                /\ \A k \in 1..Len(errors) :
                      /\ outbox'[1].Diagnostics.list[k].Severity = "error"
                      /\ outbox'[1].Diagnostics.list[k].Message = errors[k].Message
                /\ IF Len(errors) = 0
                   THEN symbolTable' =
                            BuildFromAST(symbolTable, documents'[uri].Text.src, uri).st
                   ELSE symbolTable' = symbolTable

\* C12: AnalyzeDocument(uri), as didOpen and didChange call it: for a uri that
\* is not in the document store it returns an empty result and changes no
\* state; otherwise it returns exactly one diagnostic of severity "error" per
\* parser error, in the parser's order, and rebuilds the symbol table entry of
\* uri if and only if there are no parser errors; so a uri enters FileScopes
\* only in an analysis of uri that had zero errors.
C12_AnalyzeDocument ==
    [][\A uri \in URIs :
        /\ \A text \in ServerTexts, version \in 1..MaxVersion :
              handleTextDocumentDidOpen(uri, text, version) => Analysed(uri)
        /\ \A changes \in ChangeLists, version \in 1..MaxVersion :
              handleTextDocumentDidChange(uri, changes, version) => Analysed(uri)
        /\ (/\ uri \notin DOMAIN symbolTable.FileScopes
            /\ uri \in DOMAIN symbolTable'.FileScopes)
                => /\ last'.op \in {"textDocument/didOpen", "textDocument/didChange"}
                   /\ last'.uri = uri
                   /\ uri \in DOMAIN documents'
                   /\ Len(Errors(documents'[uri].Text)) = 0]_vars

-----------------------------------------------------------------------------
\* C13: UpdateDocument(uri, changes, version), as didChange calls it: on a uri
\* that is not in the store it leaves the whole store unchanged; on a known
\* uri it replaces the text of the document with the new full text, sets its
\* version to the supplied version and leaves every other document unchanged.
C13_UpdateDocument ==
    [][\A uri \in URIs, changes \in ChangeLists, version \in 1..MaxVersion :
        handleTextDocumentDidChange(uri, changes, version) =>
            IF uri \notin DOMAIN documents THEN documents' = documents
            ELSE /\ DOMAIN documents' = DOMAIN documents
                 /\ documents'[uri].Version = version
                 /\ Len(changes) > 0 => documents'[uri].Text = changes[1].Text
                 /\ \A other \in DOMAIN documents \ {uri} :
                        documents'[other] = documents[other]]_vars

-----------------------------------------------------------------------------
\* C14: document lifecycle.  GetDocument(uri) is none for a uri never opened
\* or closed last, and otherwise gives the text and version of the most
\* recent open or successful change of uri: an open always succeeds and
\* overwrites; a change of a known uri that carries a content change leaves
\* its own text and version; a change of an unknown uri, a change that carries
\* no content change and every request about another uri leave GetDocument(uri)
\* as it was; a close makes it none, and a close of an unknown uri changes
\* nothing.
C14_DocumentLifecycle ==
    [][\A uri \in URIs :
         /\ \A text \in ServerTexts, version \in 1..MaxVersion :
               handleTextDocumentDidOpen(uri, text, version) =>
                   /\ GetDocument(documents', uri) # <<>>
                   /\ GetDocument(documents', uri)[1].Text = text
                   /\ GetDocument(documents', uri)[1].Version = version
         /\ \A changes \in ChangeLists, version \in 1..MaxVersion :
               handleTextDocumentDidChange(uri, changes, version) =>
                   IF GetDocument(documents, uri) = <<>> \/ Len(changes) = 0
                   THEN GetDocument(documents', uri) = GetDocument(documents, uri)
                   ELSE /\ GetDocument(documents', uri) # <<>>
                        /\ GetDocument(documents', uri)[1].Version = version
                        /\ GetDocument(documents', uri)[1].Text = changes[1].Text
         /\ handleTextDocumentDidClose(uri) =>
               /\ GetDocument(documents', uri) = <<>>
               /\ GetDocument(documents, uri) = <<>> => documents' = documents
         /\ last'.uri # uri =>
               GetDocument(documents', uri) = GetDocument(documents, uri)]_vars

\* a document opened with one text and version holds, after a change, the
\* text and the version of the change
C14_Witness ==
    /\ last.op = "textDocument/didChange"
    /\ GetDocument(documents, last.uri) # <<>>
    /\ GetDocument(documents, last.uri)[1].Version = 2
    /\ GetDocument(documents, last.uri)[1].Text = last.text
    /\ last.text = Text(<<"GrimBar">>, 0)

-----------------------------------------------------------------------------
\* C15: concurrent document changes.  A statement of an UpdateDocument call
\* for one uri leaves the documents of the other uris as they are, and
\* UpdateDocument calls for the same uri serialize: whenever no change of a
\* uri is between two of its statements, the stored document holds the text
\* and the version of one and the same call (its open or one change), never
\* the text of one change with the version of another.
C15_ConcurrentChanges ==
    [][/\ \A id \in 1..MaxUpdates :
            StepUpdate(id) =>
                \A other \in DOMAIN documents \ {jobs[id].uri} :
                    documents'[other] = documents[other]
       /\ \A uri \in DOMAIN documents' :
            (\A id \in DOMAIN jobs' :
                jobs'[id].uri = uri => jobs'[id].pc \in {"done", "returned"})
                => \E id \in DOMAIN jobs' :
                      /\ jobs'[id].uri = uri
                      /\ jobs'[id].pc = "done"
                      /\ jobs'[id].text = documents'[uri].Text
                      /\ jobs'[id].version = documents'[uri].Version]_vars

-----------------------------------------------------------------------------
\* the top-level grimoire definition of a text that is the last one of its name
LastDeclared(src, name) ==
    LET program == ParseProgram(src)
    IN  program[CHOOSE k \in GrimoiresOf(program) :
                    program[k].Name = name /\ LastDeclaration(program, k)]

\* C16: last declaration wins.  After every rebuild, of whatever uri,
\* LookupGrimoire(name) returns for every name the rebuilt text declares the
\* declaration made from the last grimoire definition of that name in that
\* text (its uri and its line), in place of any earlier declaration of the
\* name by this or another file, and for every other name the declaration it
\* returned before.
C16_LastDeclarationWins ==
    [][\A uri \in URIs, src \in Sources :
        Build(uri, src) =>
            \A name \in Names :
                IF name \in DeclaredGrimoires(src)
                THEN /\ LookupGrimoire(symbolTable', name) # <<>>
                     /\ LookupGrimoire(symbolTable', name)[1].Name = name
                     /\ LookupGrimoire(symbolTable', name)[1].DefinitionURI = uri
                     /\ LookupGrimoire(symbolTable', name)[1].DefinitionLine =
                            LastDeclared(src, name).Token.Line - 1
                ELSE LookupGrimoire(symbolTable', name) = LookupGrimoire(symbolTable, name)]_vars

\* grimoire Foo, declared by one file, has been declared again by another
\* file built after it: the file scope of the first still holds its Foo, and
\* the registry returns the declaration of the second
C16_Witness ==
    /\ Built
    /\ "Foo" \in DeclaredGrimoires(last.text.src)
    /\ \E other \in URIs \ {last.uri} : "Foo" \in GrimoireNamesIn(symbolTable, other)
    /\ LookupGrimoire(symbolTable, "Foo") # <<>>
    /\ LookupGrimoire(symbolTable, "Foo")[1].DefinitionURI = last.uri

-----------------------------------------------------------------------------
\* C17: closing a document does not evict symbols.  Handling
\* textDocument/didClose for uri removes uri from the document store and
\* leaves the symbol table (the file scopes, that of uri included, the
\* grimoire registry, the global scope) unchanged, so LookupSymbol(name, uri)
\* and LookupGrimoire(name) return after the close what they returned before.
C17_CloseKeepsSymbols ==
    [][\A uri \in URIs :
        handleTextDocumentDidClose(uri) =>
            /\ GetDocument(documents', uri) = <<>>
            /\ symbolTable'.FileScopes = symbolTable.FileScopes
            /\ symbolTable'.Grimoires = symbolTable.Grimoires
            /\ symbolTable'.Global = symbolTable.Global
            /\ \A name \in Names :
                  /\ LookupSymbol(symbolTable', name, uri)
                        = LookupSymbol(symbolTable, name, uri)
                  /\ LookupGrimoire(symbolTable', name)
                        = LookupGrimoire(symbolTable, name)]_vars

\* a document that declares a grimoire has been opened, analysed and closed:
\* it is not in the store, and its symbols are still found
C17_Witness ==
    /\ last.op = "textDocument/didClose"
    /\ last.err = ""
    /\ GetDocument(documents, last.uri) = <<>>
    /\ GrimoireNamesIn(symbolTable, last.uri) # {}
    /\ \E name \in GrimoireNamesIn(symbolTable, last.uri) :
          /\ LookupSymbol(symbolTable, name, last.uri) # {<<>>}
          /\ LookupGrimoire(symbolTable, name) # <<>>

-----------------------------------------------------------------------------
RECURSIVE Nested(_)
\* the symbols held by the scopes that the symbols of scope own, at any depth
Nested(scope) ==
    UNION {Range(s.Scope[1].Symbols) \cup Nested(s.Scope[1]) : s \in Openers(scope)}

\* C18: the resolution order of LookupSymbol(name, uri).  It returns the
\* global-scope symbol named name if there is one; otherwise the symbol named
\* name held directly in the file scope of uri if there is one (a top-level
\* declaration is preferred to a nested symbol of the same name); otherwise a
\* symbol named name of a scope owned, at some depth, by a symbol of the file
\* scope, if there is one; otherwise none.  For a uri without a file scope it
\* returns none unless the name is global.
C18_LookupOrder ==
    \A uri \in URIs, name \in Names :
        \A found \in LookupSymbol(symbolTable, name, uri) :
            IF name \in DOMAIN symbolTable.Global.Symbols
            THEN found = <<symbolTable.Global.Symbols[name]>>
            ELSE IF uri \notin DOMAIN symbolTable.FileScopes
            THEN found = <<>>
            ELSE IF name \in DOMAIN symbolTable.FileScopes[uri].Symbols
            THEN found = <<symbolTable.FileScopes[uri].Symbols[name]>>
            ELSE IF \E sym \in Nested(symbolTable.FileScopes[uri]) : sym.Name = name
            THEN /\ found # <<>>
                 /\ found[1].Name = name
                 /\ found[1] \in Nested(symbolTable.FileScopes[uri])
            ELSE found = <<>>

\* a built file declares x at top level and has a parameter x in a spell,
\* and r only as a local of the spell: x resolves to the top-level symbol, r
\* to the nested one, and x resolves to nothing for the other, unknown uri
C18_Witness ==
    /\ Built
    /\ ~panicked
    /\ "x" \in DOMAIN symbolTable.FileScopes[last.uri].Symbols
    /\ \E sym \in Nested(symbolTable.FileScopes[last.uri]) :
          sym.Name = "x" /\ sym # symbolTable.FileScopes[last.uri].Symbols["x"]
    /\ LookupSymbol(symbolTable, "x", last.uri)
          = {<<symbolTable.FileScopes[last.uri].Symbols["x"]>>}
    /\ LookupSymbol(symbolTable, "r", last.uri) # {<<>>}
    /\ \E other \in URIs :
          /\ other \notin DOMAIN symbolTable.FileScopes
          /\ LookupSymbol(symbolTable, "x", other) = {<<>>}

-----------------------------------------------------------------------------
\* C19: GetCurrentGrimoire(uri, line) returns none when uri has no file scope
\* or when no grimoire of the file starts at or before line; otherwise it
\* returns the first grimoire of the file, in declaration order, whose start
\* line is at most line, and the same grimoire on every call made in the same
\* state.
C19_CurrentGrimoire ==
    /\ \A uri \in URIs \ DOMAIN symbolTable.FileScopes, line \in Lines :
            GetCurrentGrimoire(symbolTable, uri, line) = {<<>>}
    /\ (Built /\ ~panicked) =>
            \A line \in Lines :
                LET answers == GetCurrentGrimoire(symbolTable, last.uri, line)
                    started == {k \in GrimoiresOf(Program) :
                                    Program[k].Token.Line - 1 <= line}
                IN  IF started = {} THEN answers = {<<>>}
                    ELSE /\ Cardinality(answers) = 1
                         /\ \A answer \in answers :
                              /\ answer # <<>>
                              /\ answer[1].Name = Program[Minimum(started)].Name

-----------------------------------------------------------------------------
RECURSIVE LocalsIn(_)
\* the locals a statement list introduces at any nesting depth: assignment
\* targets, for-loop variables and ensnare aliases, inside if/otherwise,
\* match/case, for, while, attempt/ensnare/resolve and plain nested blocks
LocalsIn(stmts) ==
    IF Len(stmts) = 0 THEN {}
    ELSE LET s == Head(stmts)
             here ==
                CASE s.kind = "AssignStatement" -> {s.Name} \ {""}
                  [] s.kind = "BlockStatement" -> LocalsIn(s.Statements)
                  [] s.kind = "IfStatement" ->
                        LocalsIn(s.Consequence) \cup LocalsIn(s.Alternative)
                            \cup UNION {LocalsIn(s.OtherwiseBranches[k]) :
                                            k \in 1..Len(s.OtherwiseBranches)}
                  [] s.kind = "MatchStatement" ->
                        UNION {LocalsIn(s.Cases[k]) : k \in 1..Len(s.Cases)}
                  [] s.kind = "ForStatement" ->
                        Range(s.Variables) \cup LocalsIn(s.Body) \cup LocalsIn(s.Alternative)
                  [] s.kind = "WhileStatement" -> LocalsIn(s.Body)
                  [] s.kind = "AttemptStatement" ->
                        LocalsIn(s.TryBlock) \cup LocalsIn(s.ResolveBlock)
                            \cup UNION {({s.EnsnareClauses[k].Alias} \ {""})
                                            \cup LocalsIn(s.EnsnareClauses[k].Consequence) :
                                            k \in 1..Len(s.EnsnareClauses)}
                  [] OTHER -> {}
         IN  here \cup LocalsIn(Tail(stmts))

\* C20: body pass flattening.  After BuildFromAST, for every top-level
\* function of the text, every local introduced in its body at any nesting
\* depth (assignment targets, for-loop variables, ensnare aliases, inside
\* if/otherwise, match/case, for, while, attempt/ensnare/resolve and nested
\* blocks) is a symbol of the function's own scope.
C20_LocalsFlattened ==
    (Built /\ ~panicked) =>
        \A k \in 1..Len(Program) :
            Program[k].kind = "FunctionDefinition" =>
                LET found == LookupSymbol(symbolTable, Program[k].Name, last.uri)
                IN  \A function \in found :
                        /\ function # <<>>
                        /\ function[1].Scope # <<>>
                        /\ \A local \in LocalsIn(Program[k].Body) :
                              local \in DOMAIN function[1].Scope[1].Symbols

-----------------------------------------------------------------------------
\* the top-level assignments of a program to a bare identifier that no later
\* top-level statement of the program declares again
LastAssignments(program) ==
    {k \in 1..Len(program) :
        /\ program[k].kind = "AssignStatement"
        /\ program[k].Name # ""
        /\ \A j \in (k + 1)..Len(program) : program[j].Name # program[k].Name}

\* C21: instance-binding detection.  After BuildFromAST of a document, a
\* variable symbol has kind "instance" with owning class C if and only if the
\* right-hand side of its assignment is a direct call whose callee is the bare
\* identifier C and C is a grimoire of the registry, wherever the assignment
\* stands in the file relative to the declaration of C.
C21_InstanceBinding ==
    (Built /\ ~panicked) =>
        \A k \in LastAssignments(Program) :
            LET symbol == symbolTable.FileScopes[last.uri].Symbols[Program[k].Name]
                callee == Program[k].Callee
                bound == callee # "" /\ LookupGrimoire(symbolTable, callee) # <<>>
            IN  /\ symbol.Type = "instance" <=> bound
                /\ symbol.Type = "instance" => symbol.GrimoireName = callee
                /\ symbol.Type \in {"instance", "variable"}

-----------------------------------------------------------------------------
(* getFunctionCallContext on its own: every line over a small alphabet and  *)
(* a few call lines, at every cursor position of the line.                  *)

MaxLineLen == 4

LineAlphabet == {"f", "(", ")", ",", " "}

CallLines ==
    UNION {[1..n -> LineAlphabet] : n \in 0..MaxLineLen}
        \cup {Join(<<"c", "a", "l", "c", ".", "a", "d", "d", "(", "1", ",", " ", ")">>),
              Join(<<"c", "a", "l", "c", ".", "a", "d", "d", "(", ")">>),
              Join(<<"x", " ", "=", " ", "Foo", "(", "1", ",", " ", "2", ")">>),
              Join(<<"f", "(", "g", "(", "1", ")", ",", " ", "2", ",", " ", ")">>),
              MalformedLine}

InitContext ==
    /\ symbolTable = NewSymbolTable
    /\ documents = <<>>
    /\ initialized = FALSE
    /\ outbox = <<>>
    /\ panicked = FALSE
    /\ jobs = <<>>
    /\ calls = 0
    /\ \E line \in CallLines :
          last = [op |-> "none", line |-> line, pos |-> Position(0, 0),
                  reply |-> [funcName |-> <<>>, paramIndex |-> 0]]

\* one call of getFunctionCallContext(line, charPos), as GetSignatureHelp
\* makes it: charPos is at most the length of the line
CallContext(charPos) ==
    /\ charPos <= Len(last.line)
    /\ last' = [last EXCEPT !.op = "getFunctionCallContext",
                            !.pos = Position(0, charPos),
                            !.reply = getFunctionCallContext(last.line, charPos)]
    /\ UNCHANGED <<symbolTable, documents, initialized, outbox, panicked, jobs, calls>>

NextContext == \E charPos \in 0..Len(last.line) : CallContext(charPos)

SpecContext == InitContext /\ [][NextContext]_vars

RECURSIVE OpenParens(_, _, _, _)
\* the 0-based indexes of the "(" among the first `cursor` characters of the
\* line that no ")" before the cursor closes, innermost last: a left-to-right
\* match of the brackets from 1-based index k with the open ones in `open`
OpenParens(line, k, cursor, open) ==
    IF k > cursor THEN open
    ELSE IF line[k] = "(" THEN OpenParens(line, k + 1, cursor, Append(open, k - 1))
    ELSE IF line[k] = ")" /\ open # <<>>
         THEN OpenParens(line, k + 1, cursor, SubSeq(open, 1, Len(open) - 1))
    ELSE OpenParens(line, k + 1, cursor, open)

\* the identifier that ends right before 0-based index p, empty if none
IdentifierBefore(line, p) ==
    LET start == Minimum({k \in 0..p : \A j \in (k + 1)..p : isIdentifierChar(line[j])})
    IN  SubSeq(line, start + 1, p)

\* C22: signature-help parameter index.  For a cursor inside a call,
\* getFunctionCallContext returns as callee the identifier immediately before
\* the nearest unmatched "(" left of the cursor and as index the number of
\* commas between that "(" and the cursor; with no unmatched "(" left of the
\* cursor it returns no callee.
C22_CallContext ==
    last.op = "getFunctionCallContext" =>
        LET line == last.line
            cursor == last.pos.Character
            open == OpenParens(line, 1, cursor, <<>>)
        IN  IF open = <<>> THEN last.reply.funcName = <<>>
            ELSE LET paren == open[Len(open)]
                     name == IdentifierBefore(line, paren)
                 IN  name # <<>> =>
                        /\ last.reply.funcName = name
                        /\ last.reply.paramIndex =
                              Cardinality({k \in (paren + 1)..(cursor - 1) : line[k + 1] = ","})

\* `calc.add(1, |)` has answered add and 1
C22_Witness ==
    /\ last.op = "getFunctionCallContext"
    /\ last.line = Join(<<"c", "a", "l", "c", ".", "a", "d", "d", "(", "1", ",", " ", ")">>)
    /\ last.pos.Character = 12
    /\ last.reply = [funcName |-> <<"a", "d", "d">>, paramIndex |-> 1]

-----------------------------------------------------------------------------
\* C23: active-parameter clamping.  Whenever GetSignatureHelp returns a
\* signature with at least one parameter, for a user-defined spell or method
\* as well as for a built-in function, the returned ActiveParameter is at
\* most the number of parameters minus one.
C23_ActiveParameterClamped ==
    last.op = "textDocument/signatureHelp" =>
        \A help \in last.reply.items :
            \A k \in 1..Len(help.Signatures) :
                Len(help.Signatures[k].Parameters) >= 1 =>
                    help.ActiveParameter <= Len(help.Signatures[k].Parameters) - 1

-----------------------------------------------------------------------------
\* a declared name with the token that declares it
Declared(name, tok) == [name |-> name, tok |-> tok]

RECURSIVE Declarations(_)
\* the names the statements declare, each with the token the symbol table
\* reads its position from.  The parameters of a spell, and the self of a
\* method, go with the token of the spell; loop variables with the token of
\* the for statement; an alias with the token of its ensnare clause.
Declarations(stmts) ==
    IF Len(stmts) = 0 THEN {}
    ELSE LET s == Head(stmts)
             spell(f) ==
                {Declared(f.Name, f.Token)}
                    \cup {Declared(f.Parameters[k].Name, f.Token) :
                                k \in 1..Len(f.Parameters)}
                    \cup Declarations(f.Body)
             here ==
                CASE s.kind = "FunctionDefinition" -> spell(s)
                  [] s.kind = "GrimoireDefinition" ->
                        {Declared(s.Name, s.Token)}
                            \cup UNION {spell(f) \cup {Declared("self", f.Token)} :
                                            f \in Range(s.Methods) \cup Range(s.InitMethod)}
                  [] s.kind = "AssignStatement" ->
                        IF s.Name = "" THEN {} ELSE {Declared(s.Name, s.Token)}
                  [] s.kind = "BlockStatement" -> Declarations(s.Statements)
                  [] s.kind = "IfStatement" ->
                        Declarations(s.Consequence) \cup Declarations(s.Alternative)
                            \cup UNION {Declarations(s.OtherwiseBranches[k]) :
                                            k \in 1..Len(s.OtherwiseBranches)}
                  [] s.kind = "MatchStatement" ->
                        UNION {Declarations(s.Cases[k]) : k \in 1..Len(s.Cases)}
                  [] s.kind = "ForStatement" ->
                        {Declared(v, s.Token) : v \in Range(s.Variables)}
                            \cup Declarations(s.Body) \cup Declarations(s.Alternative)
                  [] s.kind = "WhileStatement" -> Declarations(s.Body)
                  [] s.kind = "AttemptStatement" ->
                        Declarations(s.TryBlock) \cup Declarations(s.ResolveBlock)
                            \cup UNION {{Declared(c.Alias, c.Token)} \cup
                                            Declarations(c.Consequence) :
                                            c \in Range(s.EnsnareClauses)}
                  [] OTHER -> {}
         IN  here \cup Declarations(Tail(stmts))

\* symbol, or a location, stands at the 0-based place of a token that
\* declares name
AtDeclaration(declared, name, line, column) ==
    \E d \in declared :
        /\ d.name = name
        /\ line = d.tok.Line - 1
        /\ column = d.tok.Column - 1

\* C24: definition location exactness.  For every symbol created by
\* BuildFromAST the recorded definition line and column are the declaring
\* token's 1-based line and column minus 1, and FindDefinition on a use of the
\* symbol returns a single location with that start line and character and
\* with the symbol's defining file as URI.
C24_DefinitionExact ==
    (/\ last.op = "textDocument/definition"
     /\ last.uri \in DOMAIN documents
     /\ last.uri \in DOMAIN symbolTable.FileScopes
     /\ documents[last.uri].Text.bad = 0) =>
        LET declared == Declarations(ParseProgram(documents[last.uri].Text.src))
            fileScope == symbolTable.FileScopes[last.uri]
            name == Word(getSymbolAtPosition(LineAt(last.uri, last.pos),
                                             last.pos.Character).name)
        IN  /\ \A symbol \in Range(fileScope.Symbols) \cup Nested(fileScope) :
                    /\ symbol.DefinitionURI = last.uri
                    /\ AtDeclaration(declared, symbol.Name,
                                     symbol.DefinitionLine, symbol.DefinitionColumn)
            /\ Cardinality(last.reply.items) <= 1
            /\ \A location \in last.reply.items :
                    /\ location.URI = last.uri
                    /\ AtDeclaration(declared, name, location.Range.Start.Line,
                                     location.Range.Start.Character)

-----------------------------------------------------------------------------
\* C25: the initialization gate.  The handler starts uninitialized, only a
\* successful initialize makes it initialized and a shutdown makes it
\* uninitialized again; while it is uninitialized every request other than
\* initialize is answered with the error "server not initialized", changes
\* neither the document store nor the symbol table and publishes no
\* diagnostics; an initialize whose parameters cannot be decoded leaves the
\* handler uninitialized.
C25_InitializationGate ==
    [][/\ calls = 0 => ~initialized
       /\ (last'.op = "shutdown" /\ last'.err = "") => ~initialized'
       /\ (~initialized /\ initialized') => (last'.op = "initialize" /\ last'.err = "")
       /\ (~initialized /\ last'.op = "initialize" /\ last'.err # "") => ~initialized'
       /\ (~initialized /\ last'.op # "initialize") =>
                /\ last'.err = "server not initialized"
                /\ ~initialized'
                /\ documents' = documents
                /\ symbolTable' = symbolTable
                /\ outbox' = <<>>]_vars

\* the last of MaxRequests requests, a didOpen, was turned away at the closed gate
C25_Witness ==
    /\ ~initialized
    /\ calls = MaxRequests
    /\ last.op = "textDocument/didOpen"
    /\ last.err = "server not initialized"
    /\ documents = <<>>
    /\ outbox = <<>>

-----------------------------------------------------------------------------
\* C26: diagnostics publication.  Every handled textDocument/didOpen and
\* textDocument/didChange sends exactly one textDocument/publishDiagnostics
\* notification for its URI, carrying the diagnostics of the analysis of the
\* text the store holds after the update (none when the parse has no error or
\* the document is unknown); every textDocument/didClose sends exactly one
\* notification with no diagnostics for its URI.
C26_DiagnosticsPublished ==
    (last.err = "" /\ last.op \in {"textDocument/didOpen", "textDocument/didChange",
                                   "textDocument/didClose"}) =>
        /\ Len(outbox) = 1
        /\ outbox[1].method = "textDocument/publishDiagnostics"
        /\ outbox[1].URI = last.uri
        /\ LET errors == IF last.op = "textDocument/didClose"
                            \/ last.uri \notin DOMAIN documents
                         THEN <<>>
                         ELSE Errors(documents[last.uri].Text)
               sent == outbox[1].Diagnostics.list
           IN  /\ Len(sent) = Len(errors)
               /\ \A k \in 1..Len(errors) :
                      /\ sent[k].Severity = "error"
                      /\ sent[k].Message = errors[k].Message

-----------------------------------------------------------------------------
RECURSIVE ScopesUnder(_)
\* scope and every scope reachable from it: the scopes its symbols own and
\* the scopes of the methods of its grimoire
ScopesUnder(scope) ==
    {scope}
        \cup UNION {ScopesUnder(s.Scope[1]) : s \in Openers(scope)}
        \cup UNION {ScopesUnder(m.Scope[1]) :
                        m \in {n \in UNION {Range(g.Methods) : g \in Range(scope.Grimoire)} :
                                    n.Scope # <<>>}}

\* the parent chain of a scope below the file scope of uri passes through
\* that file scope and ends at the global scope
ChainThroughFile(st, scope, uri) ==
    LET parent == deref(st, scope.Parent)
    IN  /\ parent # <<>>
        /\ \/ scope.Parent = FileScope(uri)
           \/ /\ scope.Parent.kind = "Grimoire"
              /\ parent[1].Parent = FileScope(uri)
        /\ st.FileScopes[uri].Parent = GlobalScope

\* C27: scope-tree well-formedness and file ownership.  In every reachable
\* state, also when rebuilds of different URIs on the same symbol table
\* interleave, every scope reachable from FileScopes[uri] has a parent chain
\* that ends at the global scope through the file scope of uri, has URI equal
\* to uri, and every symbol in those scopes has DefinitionURI equal to uri.
C27_ScopeTreeOwned ==
    \A uri \in DOMAIN symbolTable.FileScopes :
        LET fileScope == symbolTable.FileScopes[uri]
        IN  /\ fileScope.Parent = GlobalScope
            /\ \A scope \in ScopesUnder(fileScope) :
                    /\ scope.URI = uri
                    /\ scope = fileScope \/ ChainThroughFile(symbolTable, scope, uri)
                    /\ \A symbol \in Range(scope.Symbols) : symbol.DefinitionURI = uri

-----------------------------------------------------------------------------
\* the symbols hold the self of grimoire name and the parameters of method
HoldsMethodLocals(symbols, name, method) ==
    /\ \E symbol \in symbols :
          /\ symbol.Name = "self"
          /\ symbol.Type = "parameter"
          /\ symbol.GrimoireName = name
    /\ \A k \in 1..Len(method.Parameters) :
          \E symbol \in symbols :
              /\ symbol.Name = method.Parameters[k].Name
              /\ symbol.Type = "parameter"

\* C28: method scopes are queryable.  After BuildFromAST, for every method of
\* every grimoire and every line at or after the method's start line,
\* GetLocalSymbols(uri, line) can select the method's scope: one of its
\* possible results contains the method's self symbol and its declared
\* parameters.
C28_MethodScopesQueryable ==
    (Built /\ ~panicked) =>
        \A k \in GrimoiresOf(Program) :
            (\A j \in (k + 1)..Len(Program) : Program[j].Name # Program[k].Name) =>
                \A method \in DeclaredMethods(Program[k]) :
                    \A line \in {l \in Lines : l >= method.Token.Line - 1} :
                        \E symbols \in GetLocalSymbols(symbolTable, last.uri, line) :
                            HoldsMethodLocals(symbols, Program[k].Name, method)

-----------------------------------------------------------------------------
\* every possible result of GetGlobalSymbols holds all methods of the
\* registered grimoire name
MethodsReturned(st, name) ==
    \A symbols \in GetGlobalSymbols(st) :
        Range(LookupGrimoire(st, name)[1].Methods) \subseteq symbols

\* C29: the grimoire registry only grows.  Once a rebuild has registered a
\* grimoire name, LookupGrimoire(name) is non-none in every later state, after
\* any rebuild (also one of the defining file from a text that no longer
\* declares the grimoire), failed parse or document close, and
\* GetGlobalSymbols keeps returning the methods of such a grimoire.
C29_RegistryOnlyGrows ==
    [][\A name \in Names :
            LookupGrimoire(symbolTable, name) # <<>> =>
                /\ LookupGrimoire(symbolTable', name) # <<>>
                /\ MethodsReturned(symbolTable', name)]_vars

\* the file that declared grimoire Foo was changed to a text without it, no
\* file scope holds a grimoire symbol Foo any more, and the registry still
\* has Foo and GetGlobalSymbols its method bar
C29_Witness ==
    /\ last.op = "textDocument/didChange"
    /\ ~panicked
    /\ LookupGrimoire(symbolTable, "Foo") # <<>>
    /\ GrimoireSymbolsOf(symbolTable, "Foo") = {}
    /\ \A symbols \in GetGlobalSymbols(symbolTable) :
            \E method \in symbols : method.Name = "bar" /\ method.Type = "method"

-----------------------------------------------------------------------------
\* C30: the global scope stays empty.  No operation inserts a symbol into the
\* global scope, so in every reachable state LookupSymbol(name, uri) returns
\* either none or a symbol of the scope tree of uri itself, never a symbol
\* defined in another file.
C30_GlobalScopeEmpty ==
    /\ symbolTable.Global.Symbols = <<>>
    /\ \A uri \in URIs, name \in Names :
          \A found \in LookupSymbol(symbolTable, name, uri) :
              found # <<>> =>
                  /\ uri \in DOMAIN symbolTable.FileScopes
                  /\ found[1] \in Range(symbolTable.FileScopes[uri].Symbols)
                                    \cup Nested(symbolTable.FileScopes[uri])
                  /\ found[1].DefinitionURI = uri

\* two files are open that both declare Foo, one as a spell and one as a
\* grimoire: each file's lookup finds its own Foo, and the parameter p of the
\* spell is found from its own file only
C30_Witness ==
    /\ ~panicked
    /\ last.op = "textDocument/didOpen"
    /\ \E A \in URIs : \E B \in URIs \ {A} :
          /\ \A found \in LookupSymbol(symbolTable, "Foo", A) :
                found # <<>> /\ found[1].Type = "spell" /\ found[1].DefinitionURI = A
          /\ \A found \in LookupSymbol(symbolTable, "Foo", B) :
                found # <<>> /\ found[1].Type = "Grimoire" /\ found[1].DefinitionURI = B
          /\ LookupSymbol(symbolTable, "p", A) # {<<>>}
          /\ LookupSymbol(symbolTable, "p", B) = {<<>>}
====
